---- MODULE Spec2Model ----
(***************************************************************************)
(* Transaction notification engine of the Mariners bot:                    *)
(*   - TransactionNotificationBatcher (scheduler/transaction_scheduler.py) *)
(*   - MarinersBot._sync_transactions and the handlers it calls (main.py)  *)
(*   - the transaction table of the repository (database/repository.py)    *)
(*                                                                         *)
(* Every coroutine of the bot is an executor whose steps are the code      *)
(* between two awaits; steps of different executors interleave, as asyncio *)
(* interleaves them.                                                       *)
(*                                                                         *)
(* Time is counted in minutes and moves in steps of the poll interval.     *)
(* The code reads a recorded time only as now - last_notification_time,    *)
(* compared with the batch window, so the model keeps for each recorded    *)
(* time the minutes elapsed since it, and stops counting at Beyond, the    *)
(* first step past the window.                                             *)
(***************************************************************************)
EXTENDS Integers, Sequences, FiniteSets, TLC

\* ---------------------------------------------------------------- bounds
NumChats == 2
NumGames == 1
MaxSent == 2
MaxTx == 2
MaxPending == 2
MaxKinds == 4
MaxShort == 3
MaxMixed == 6
MaxRecords == 2
MaxRendered == 3
MaxBatch == 11

\* ------------------------------------------------------ program constants
batch_window_minutes == 10
SyncIntervalMinutes == 5
ChunkSize == 5
misfire_grace_time == 300
stale_minutes == 5
notification_advance_minutes == 5
Day == 1440

Beyond == batch_window_minutes + SyncIntervalMinutes
Chats == 1..NumChats
Tx == 1..MaxTx
Executors == {"initial", "job"}
Games == 1..NumGames

VARIABLES
    pending_transactions,    \* batcher: chat_id -> list of transactions (a dict)
    last_notification_time,  \* batcher: chat_id -> minutes since the recorded time (a dict)
    records,                 \* TransactionRecord table: transaction_id -> row (a dict)
    subscribed,              \* UserRecord.subscribed = True
    telegram_chat_id,        \* settings.telegram_chat_id is set
    task,                    \* per executor: position in _sync_transactions and its locals
    due,                     \* the scheduler has a run of the job to start
    added,                   \* history: chat_id -> transactions added since the last drain
    direct,                  \* history: the batcher was called from outside the bot
    ev,                      \* history: the last direct call of the batcher and its result
    preferences,             \* UserTransactionPreference table: chat_id -> row (a dict)
    call,                    \* a function called on its own: its arguments, locals and result
    job,                     \* the NotificationJob a reminder carries: its status and counters
    job_records,             \* NotificationJobRecord table: job id -> row (a dict)
    scheduled,               \* GameScheduler's job store: game -> minutes until run_date (a dict)
    games,                   \* GameRecord table: game -> row, its date in minutes from now (a dict)
    inflight,                \* the games whose _notification_wrapper is running
    sent,                    \* history: game -> reminder messages delivered
    running,                 \* the process, and with it the scheduler, is up
    sync_due                 \* the schedule sync about to run: "initial", "daily" or "none"

vars == <<pending_transactions, last_notification_time, records, subscribed,
          telegram_chat_id, task, due, added, direct, ev, preferences, call,
          job, job_records, scheduled, games, inflight, sent, running, sync_due>>

\* the state of the game reminders: the transaction sync never touches it
reminder == <<job, job_records, scheduled, games, inflight, sent, running, sync_due>>

\* the settings and the user table: the sync and the batcher never write them
config == <<subscribed, telegram_chat_id, preferences>>

\* ---------------------------------------------------------------- helpers
RECURSIVE SetToSeq(_)
SetToSeq(S) ==
    IF S = {} THEN <<>>
    ELSE LET m == CHOOSE x \in S : \A y \in S : x <= y
         IN <<m>> \o SetToSeq(S \ {m})

Range(s) == {s[i] : i \in 1..Len(s)}

IsPrefix(s, t) == Len(s) <= Len(t) /\ \A i \in 1..Len(s) : s[i] = t[i]

Min(a, b) == IF a <= b THEN a ELSE b

\* the upstream's answers: the transactions of a set, by id
Responses == {SetToSeq(S) : S \in SUBSET Tx}

\* ------------------------------------------------- Transaction (the model)
\* the values of the enum TransactionType
TransactionType ==
    {"TR", "SFA", "SC", "SEL", "REC", "OPT", "DES", "REL", "SUS", "PUR", "CLA", "REI",
     "IL", "ACT", "OTH"}

\* the type codes the upstream sends: those of the enum and one it does not know
TypeCodes ==
    <<"TR", "SC", "REC", "SFA", "SEL", "OPT", "DES", "REL", "SUS", "PUR", "CLA", "REI",
      "IL", "ACT", "OTH", "XX">>

\* type_code of the transactions of the universe: a trade, a status change, a
\* recall, and so on through TypeCodes
type_code(t) == TypeCodes[((t - 1) % Len(TypeCodes)) + 1]

\* Transaction.transaction_type: the enum value, OTHER for an unknown code
transaction_type(t) ==
    IF type_code(t) \in TransactionType THEN type_code(t) ELSE "OTH"

\* transaction_date, as a day number
transaction_date(t) == t % 2

\* ------------------------------------------------------ descriptions (text)
\* a text is the sequence of its characters
LowerCase ==
    <<"a", "b", "c", "d", "e", "f", "g", "h", "i", "j", "k", "l", "m", "n", "o", "p", "q", "r", "s", "t", "u", "v", "w", "x", "y", "z">>
UpperCase ==
    <<"A", "B", "C", "D", "E", "F", "G", "H", "I", "J", "K", "L", "M", "N", "O", "P", "Q", "R", "S", "T", "U", "V", "W", "X", "Y", "Z">>

\* str.lower, character by character
lower(text) ==
    [i \in 1..Len(text) |->
        IF \E k \in 1..Len(UpperCase) : UpperCase[k] = text[i]
        THEN LowerCase[CHOOSE k \in 1..Len(UpperCase) : UpperCase[k] = text[i]]
        ELSE text[i]]

\* term in text
Contains(text, term) ==
    \E i \in 0..(Len(text) - Len(term)) : SubSeq(text, i + 1, i + Len(term)) = term

\* the description of the transactions of the universe: every second one is a
\* move to a minor-league club
description(t) ==
    IF t % 2 = 0 THEN <<"t", "o", " ", "T", "r", "i", "p", "l", "e", "-", "A">>
    ELSE <<"t", "r", "a", "d", "e", "d">>

\* ------------------------------------------- UserTransactionPreferences
PreferenceFields ==
    {"trades", "signings", "recalls", "options", "injuries", "activations",
     "releases", "status_changes", "other"}

\* the defaults of the model's fields (user_preferences.py 14-25)
DefaultPreferences ==
    [trades |-> TRUE, signings |-> TRUE, recalls |-> TRUE, options |-> TRUE,
     injuries |-> TRUE, activations |-> TRUE, releases |-> FALSE,
     status_changes |-> FALSE, other |-> FALSE, major_league_only |-> TRUE]

\* a row that wants every transaction
AllPreferences ==
    [trades |-> TRUE, signings |-> TRUE, recalls |-> TRUE, options |-> TRUE,
     injuries |-> TRUE, activations |-> TRUE, releases |-> TRUE,
     status_changes |-> TRUE, other |-> TRUE, major_league_only |-> FALSE]

MinorLeagueTerms ==
    {<<"m", "i", "n", "o", "r", " ", "l", "e", "a", "g", "u", "e">>,
     <<"t", "r", "i", "p", "l", "e", "-", "a">>,
     <<"d", "o", "u", "b", "l", "e", "-", "a">>,
     <<"s", "i", "n", "g", "l", "e", "-", "a">>,
     <<"r", "o", "o", "k", "i", "e">>}

\* the dict type_preferences, by the name of the field it reads
type_preferences ==
    [tt \in TransactionType |->
        CASE tt = "TR" -> "trades"
          [] tt = "SFA" -> "signings"
          [] tt = "REC" -> "recalls"
          [] tt = "OPT" -> "options"
          [] tt = "IL" -> "injuries"
          [] tt = "ACT" -> "activations"
          [] tt = "REL" -> "releases"
          [] tt = "SC" -> "status_changes"
          [] tt = "SEL" -> "recalls"
          [] tt = "DES" -> "status_changes"
          [] tt = "SUS" -> "status_changes"
          [] tt = "PUR" -> "signings"
          [] tt = "CLA" -> "signings"
          [] tt = "REI" -> "activations"
          [] tt = "OTH" -> "other"]

should_notify_for_transaction_type_only(prefs, tt, text) ==
    IF tt \in DOMAIN type_preferences THEN prefs[type_preferences[tt]] ELSE prefs.other

should_notify_for_transaction_trades(prefs, tt, text) ==
    IF prefs.major_league_only
          /\ \E term \in MinorLeagueTerms : Contains(lower(text), term)
    THEN FALSE
    ELSE prefs.trades

\* UserTransactionPreferences.should_notify_for_transaction
should_notify_for_transaction(prefs, tt, text) ==
    IF prefs.major_league_only
          /\ \E term \in MinorLeagueTerms : Contains(lower(text), term)
    THEN FALSE
    ELSE IF tt \in DOMAIN type_preferences THEN prefs[type_preferences[tt]]
    ELSE prefs.other

\* ---------------------------------------- TransactionNotificationBatcher
\* the list the dict holds for chat_id, empty when the key is absent
BatchOf(chat_id) ==
    IF chat_id \in DOMAIN pending_transactions
    THEN pending_transactions[chat_id] ELSE <<>>

\* (now - self.last_notification_time[chat_id]).total_seconds() / 60
Elapsed(chat_id) == last_notification_time[chat_id]

should_batch_notification_skip_first(chat_id, transaction) ==
    /\ chat_id \in DOMAIN pending_transactions
    /\ pending_transactions[chat_id] # <<>>
    /\ (chat_id \in DOMAIN last_notification_time
            => ~(Elapsed(chat_id) > batch_window_minutes))

should_batch_notification_strict(chat_id, transaction) ==
    IF chat_id \notin DOMAIN last_notification_time THEN FALSE
    ELSE IF Elapsed(chat_id) >= batch_window_minutes THEN FALSE
    ELSE IF chat_id \in DOMAIN pending_transactions
              /\ pending_transactions[chat_id] # <<>> THEN TRUE
    ELSE FALSE

should_batch_notification_in_window(chat_id, transaction) ==
    IF chat_id \notin DOMAIN last_notification_time THEN FALSE
    ELSE IF Elapsed(chat_id) > batch_window_minutes THEN FALSE
    ELSE TRUE

should_batch_notification(chat_id, transaction) ==
    IF chat_id \notin DOMAIN last_notification_time THEN FALSE
    ELSE IF Elapsed(chat_id) > batch_window_minutes THEN FALSE
    ELSE IF chat_id \in DOMAIN pending_transactions
              /\ pending_transactions[chat_id] # <<>> THEN TRUE
    ELSE FALSE

\* the dict after the call
add_transaction_to_batch(chat_id, transaction) ==
    [c \in DOMAIN pending_transactions \cup {chat_id} |->
        IF c = chat_id THEN Append(BatchOf(chat_id), transaction)
        ELSE pending_transactions[c]]

get_and_clear_batch_keep(chat_id) ==
    [transactions |-> BatchOf(chat_id), pending_transactions |-> pending_transactions]

\* the list returned and the dict after the call
get_and_clear_batch(chat_id) ==
    IF chat_id \notin DOMAIN pending_transactions
    THEN [transactions |-> <<>>, pending_transactions |-> pending_transactions]
    ELSE [transactions |-> pending_transactions[chat_id],
          pending_transactions |-> [pending_transactions EXCEPT ![chat_id] = <<>>]]

mark_notification_sent_stale(chat_id) ==
    [c \in DOMAIN last_notification_time \cup {chat_id} |->
        IF c \in DOMAIN last_notification_time THEN last_notification_time[c] ELSE 0]

\* the dict after the call: the recorded time is now
mark_notification_sent(chat_id) ==
    [c \in DOMAIN last_notification_time \cup {chat_id} |->
        IF c = chat_id THEN 0 ELSE last_notification_time[c]]

\* the chat_ids returned; the dict's keys are distinct, so none is returned twice
get_users_with_pending_batches ==
    {chat_id \in DOMAIN pending_transactions :
        /\ pending_transactions[chat_id] # <<>>
        /\ IF chat_id \in DOMAIN last_notification_time
           THEN Elapsed(chat_id) >= batch_window_minutes
           ELSE TRUE}

\* ----------------------------------------------------- priority classifier
HighTypes == {"TR", "SFA"}
MediumTypes == {"REC", "ACT", "IL", "OPT"}

group_transactions_by_priority_option_low(transactions) ==
    [high_priority |-> SelectSeq(transactions, LAMBDA t : transaction_type(t) \in HighTypes),
     medium_priority |-> SelectSeq(transactions,
                        LAMBDA t : transaction_type(t) \in MediumTypes \ {"OPT"}),
     low_priority |-> SelectSeq(transactions,
                        LAMBDA t : transaction_type(t) \notin HighTypes
                                      /\ transaction_type(t) \notin MediumTypes \ {"OPT"})]

\* group_transactions_by_priority: the three lists, each in input order
group_transactions_by_priority(transactions) ==
    [high_priority |-> SelectSeq(transactions, LAMBDA t : transaction_type(t) \in HighTypes),
     medium_priority |-> SelectSeq(transactions,
                        LAMBDA t : transaction_type(t) \notin HighTypes
                                      /\ transaction_type(t) \in MediumTypes),
     low_priority |-> SelectSeq(transactions,
                        LAMBDA t : transaction_type(t) \notin HighTypes
                                      /\ transaction_type(t) \notin MediumTypes)]

should_separate_batch_by_tier_only(transactions) ==
    /\ \E i \in 1..Len(transactions) : transaction_type(transactions[i]) \in HighTypes
    /\ \E i \in 1..Len(transactions) :
          transaction_type(transactions[i]) \notin HighTypes \cup MediumTypes

should_separate_batch(transactions) ==
    LET groups == group_transactions_by_priority(transactions)
        has_high == Len(groups.high_priority) > 0
        has_low == Len(groups.low_priority) > 0
    IN (has_high /\ has_low) \/ Len(transactions) > ChunkSize

Chunks_drop_tail(medium_low) ==
    [i \in 1..(Len(medium_low) \div ChunkSize) |->
        SubSeq(medium_low, (i - 1) * ChunkSize + 1, i * ChunkSize)]

Chunks_single(medium_low) ==
    IF medium_low # <<>> THEN <<medium_low>> ELSE <<>>

\* the loop of split_transactions_for_batching (lines 249-256): chunks of five,
\* then what is left
RECURSIVE Chunks(_)
Chunks(medium_low) ==
    IF Len(medium_low) > ChunkSize
    THEN <<SubSeq(medium_low, 1, ChunkSize)>>
            \o Chunks(SubSeq(medium_low, ChunkSize + 1, Len(medium_low)))
    ELSE IF medium_low # <<>> THEN <<medium_low>> ELSE <<>>

split_transactions_for_batching(transactions) ==
    IF Len(transactions) <= 1
    THEN IF transactions # <<>> THEN <<transactions>> ELSE <<>>
    ELSE IF ~should_separate_batch(transactions) THEN <<transactions>>
    ELSE LET groups == group_transactions_by_priority(transactions)
         IN (IF groups.high_priority # <<>> THEN <<groups.high_priority>> ELSE <<>>)
                \o Chunks(groups.medium_priority \o groups.low_priority)

\* transactions.sort(key=lambda t: (t.transaction_date, t.transaction_id))
SortKeyLess(a, b) ==
    \/ transaction_date(a) < transaction_date(b)
    \/ transaction_date(a) = transaction_date(b) /\ a < b

RECURSIVE SortByDateId(_)
SortByDateId(transactions) ==
    IF transactions = <<>> THEN <<>>
    ELSE LET S == Range(transactions)
             m == CHOOSE x \in S : \A y \in S : x = y \/ SortKeyLess(x, y)
         IN <<m>> \o SortByDateId(SelectSeq(transactions, LAMBDA t : t # m))

\* Transaction.format_batch_notification_message: which format, and the
\* transactions the text lists; "empty" is the empty string
format_batch_notification_message(transactions) ==
    IF transactions = <<>> THEN [format |-> "empty", items |-> <<>>]
    ELSE IF Len(transactions) = 1 THEN [format |-> "single", items |-> transactions]
    ELSE [format |-> "aggregate", items |-> transactions]

\* ------------------------------------------------------------ repository
\* get_new_transactions: the ids of the records with notification_sent = False
get_new_transactions == {t \in DOMAIN records : ~records[t].notification_sent}

\* MarinersBot._is_transaction_existing
_is_transaction_existing(transaction_id) ==
    transaction_id \in get_new_transactions

save_transaction_as_reset(transaction_id, text) ==
    [t \in DOMAIN records \cup {transaction_id} |->
        IF t = transaction_id
        THEN [notification_sent |-> FALSE, description |-> text]
        ELSE records[t]]

\* save_transaction of a transaction with this id and this description: the
\* row of the id gets the new columns and keeps notification_sent, or a row
\* with notification_sent = False is inserted
save_transaction_as(transaction_id, text) ==
    [t \in DOMAIN records \cup {transaction_id} |->
        IF t # transaction_id THEN records[t]
        ELSE IF t \in DOMAIN records
             THEN [records[t] EXCEPT !.description = text]
             ELSE [notification_sent |-> FALSE, description |-> text]]

\* save_transaction of what the upstream reports for the id
save_transaction(transaction) ==
    save_transaction_as(transaction, description(transaction))

MarkNotified_first_only(transactions) ==
    [t \in DOMAIN records |->
        IF transactions # <<>> /\ t = Head(transactions)
        THEN [records[t] EXCEPT !.notification_sent = TRUE]
        ELSE records[t]]

\* mark_transaction_notified for every transaction of a message
MarkNotified(transactions) ==
    [t \in DOMAIN records |->
        IF t \in Range(transactions)
        THEN [records[t] EXCEPT !.notification_sent = TRUE]
        ELSE records[t]]

\* the preferences the query uses for a user: the stored row, or the defaults
\* when the outer join finds none (repository.py 499-503)
PreferencesOf(chat_id) ==
    IF chat_id \in DOMAIN preferences THEN preferences[chat_id] ELSE DefaultPreferences

get_users_for_transaction_notification_everyone(transaction) ==
    SetToSeq({chat_id \in Chats :
                should_notify_for_transaction(PreferencesOf(chat_id),
                    transaction_type(transaction), description(transaction))})

get_users_for_transaction_notification_unfiltered(transaction) == SetToSeq(subscribed)

\* get_users_for_transaction_notification: the subscribed users whose preferences
\* want the transaction, by chat_id
get_users_for_transaction_notification(transaction) ==
    SetToSeq({chat_id \in subscribed :
                should_notify_for_transaction(PreferencesOf(chat_id),
                    transaction_type(transaction), description(transaction))})

\* ------------------------------------------------------------- histories
NoEv == [op |-> "none", chat |-> 0, tx |-> 0, batch |-> <<>>, before |-> <<>>,
         ok |-> FALSE, users |-> {}]

\* no function is being called on its own
NoCall ==
    [op |-> "none", transactions |-> <<>>, batches |-> <<>>,
     groups |-> [high_priority |-> <<>>, medium_priority |-> <<>>, low_priority |-> <<>>],
     prefs |-> DefaultPreferences, tt |-> "OTH", text |-> <<>>, ok |-> FALSE,
     responses |-> <<>>, waits |-> <<>>, done |-> FALSE, game |-> 0, offset |-> 0,
     data |-> <<>>, errors |-> <<>>, message |-> <<>>, chat |-> 0,
     report |-> [event |-> "none", total_transactions |-> 0]]

\* the job _schedule_game_notification builds: pending, never attempted, no
\* chat of its own, named after its game
NewJob == [status |-> "pending", attempts |-> 0, sent_at |-> FALSE, error_message |-> FALSE]

\* the scheduler as MarinersBot.start leaves it on a new database: started,
\* nothing registered, the first schedule sync about to run
SchedulerInit ==
    /\ scheduled = <<>>
    /\ games = <<>>
    /\ inflight = {}
    /\ sent = [g \in Games |-> 0]
    /\ running = TRUE
    /\ sync_due = "initial"

\* ------------------------------------------------------------- executors
Rest(pc) == [pc |-> pc, txs |-> <<>>, new |-> <<>>, chan |-> <<>>, users |-> <<>>,
             chat |-> 0, msg |-> <<>>]

\* the process is gone once MarinersBot.start has raised
Alive == task["initial"].pc # "crashed"

\* where an executor goes when _sync_transactions returns or raises
Returned(e) == IF e = "initial" THEN "done" ELSE "idle"
Raised_to_the_scheduler(e) == "crashed"

\* a raise of the run MarinersBot.start awaits ends the process; a raise of a
\* scheduled run is logged by _transaction_sync_wrapper, which returns
Raised(e) == IF e = "initial" THEN "crashed" ELSE "idle"

Init ==
    /\ pending_transactions = <<>>
    /\ last_notification_time = <<>>
    /\ records = <<>>
    /\ subscribed = Chats
    /\ telegram_chat_id \in BOOLEAN
    /\ task = [e \in Executors |-> Rest(IF e = "initial" THEN "start" ELSE "idle")]
    /\ due = FALSE
    /\ added = [c \in Chats |-> <<>>]
    /\ direct = FALSE
    /\ ev = NoEv
    /\ preferences = [c \in Chats |-> AllPreferences]
    /\ call = NoCall
    /\ job = NewJob
    /\ job_records = <<>>
    /\ SchedulerInit

\* the clock moves on by one poll interval, and the interval trigger fires: the
\* run is skipped when the previous one is still running (max_instances = 1)
Tick ==
    /\ Alive
    /\ last_notification_time' =
          [c \in DOMAIN last_notification_time |->
              Min(last_notification_time[c] + SyncIntervalMinutes, Beyond)]
    /\ due' = (task["job"].pc = "idle")
    /\ ev' = NoEv
    /\ UNCHANGED <<reminder, pending_transactions, records, config, call, task, added, direct>>

\* main.py 275-279: the users of the first new transaction that has any, and
\* the sweep when none is left
RECURSIVE Route(_)
Route(new_transactions) ==
    IF new_transactions = <<>> THEN Rest("sweep")
    ELSE LET users == get_users_for_transaction_notification(Head(new_transactions))
         IN IF users # <<>>
            THEN [Rest("handle") EXCEPT !.new = new_transactions, !.users = users]
            ELSE Route(Tail(new_transactions))

\* where _sync_transactions goes once every fetched transaction is saved
\* (main.py 234-241, 264-272): the channel, the users, or the sweep
AfterSave(new_transactions) ==
    IF new_transactions = <<>> THEN Rest("sweep")
    ELSE IF telegram_chat_id
         THEN [Rest("channel") EXCEPT
                 !.new = SortByDateId(new_transactions),
                 !.chan = split_transactions_for_batching(SortByDateId(new_transactions))]
         ELSE Route(new_transactions)

\* MarinersBot.start calls _sync_transactions once; the scheduler starts a due run
Startable(e) ==
    IF e = "initial" THEN task[e].pc = "start"
    ELSE task[e].pc = "idle" /\ due

\* main.py 216-218
SkipSweepWhenEmpty(e, transactions) ==
    IF transactions = <<>> THEN Rest(Returned(e))
    ELSE [Rest("save") EXCEPT !.txs = transactions]

\* _sync_transactions starts and the upstream answers (main.py 203-218): an empty
\* answer returns at once
SyncFetch(e, transactions) ==
    /\ Alive
    /\ Startable(e)
    /\ task' = [task EXCEPT ![e] = SkipSweepWhenEmpty(e, transactions)]
    /\ due' = (due /\ e # "job")
    /\ ev' = NoEv
    /\ UNCHANGED <<reminder, pending_transactions, last_notification_time, records, config, call,
                   added, direct>>

\* _sync_transactions starts and the upstream fails: get_team_transactions
\* re-raises, _sync_transactions re-raises (main.py 249-251)
SyncFetchRaise(e) ==
    /\ Alive
    /\ Startable(e)
    /\ task' = [task EXCEPT ![e] = Rest(Raised(e))]
    /\ due' = (due /\ e # "job")
    /\ ev' = [NoEv EXCEPT !.op = "sync_failed"]
    /\ UNCHANGED <<reminder, pending_transactions, last_notification_time, records, config, call,
                   added, direct>>

\* one turn of the loop of main.py 225-232
SaveStep(e) ==
    /\ Alive
    /\ task[e].pc = "save"
    /\ LET transaction == Head(task[e].txs)
           existing == _is_transaction_existing(transaction)
           new_transactions == IF existing THEN task[e].new
                               ELSE Append(task[e].new, transaction)
       IN /\ records' = save_transaction(transaction)
          /\ task' = [task EXCEPT ![e] =
                        IF Tail(task[e].txs) = <<>> THEN AfterSave(new_transactions)
                        ELSE [task[e] EXCEPT !.txs = Tail(@), !.new = new_transactions]]
    /\ ev' = NoEv
    /\ UNCHANGED <<reminder, pending_transactions, last_notification_time, config, call, due,
                   added, direct>>

\* one turn of the loop of _send_channel_transaction_notifications (main.py
\* 296-307): whether the send succeeds changes nothing the bot keeps
ChannelSend(e, success) ==
    /\ Alive
    /\ task[e].pc = "channel"
    /\ task' = [task EXCEPT ![e] =
                  IF Tail(task[e].chan) = <<>> THEN Route(task[e].new)
                  ELSE [task[e] EXCEPT !.chan = Tail(@)]]
    /\ ev' = NoEv
    /\ UNCHANGED <<reminder, pending_transactions, last_notification_time, records, config, call,
                   due, added, direct>>

\* the executor once the user at the head of its list is handled (main.py 275-279)
AfterUser(t) ==
    IF Tail(t.users) # <<>>
    THEN [t EXCEPT !.pc = "handle", !.users = Tail(@), !.chat = 0, !.msg = <<>>]
    ELSE Route(Tail(t.new))

\* _handle_user_transaction_notification up to its await (main.py 312-332)
Handle(e) ==
    /\ Alive
    /\ task[e].pc = "handle"
    /\ LET chat_id == Head(task[e].users)
           transaction == Head(task[e].new)
       IN IF should_batch_notification(chat_id, transaction)
          THEN /\ Len(BatchOf(chat_id)) < MaxPending
               /\ pending_transactions' = add_transaction_to_batch(chat_id, transaction)
               /\ added' = [added EXCEPT ![chat_id] = Append(@, transaction)]
               /\ task' = [task EXCEPT ![e] = AfterUser(task[e])]
          ELSE LET drained == get_and_clear_batch(chat_id)
                   all_transactions == drained.transactions \o <<transaction>>
                   message == format_batch_notification_message(all_transactions)
               IN /\ pending_transactions' = drained.pending_transactions
                  /\ added' = [added EXCEPT ![chat_id] = <<>>]
                  /\ task' = [task EXCEPT ![e] =
                                IF message.format # "empty"
                                THEN [task[e] EXCEPT !.pc = "send", !.chat = chat_id,
                                                     !.msg = message.items]
                                ELSE AfterUser(task[e])]
    /\ ev' = NoEv
    /\ UNCHANGED <<reminder, last_notification_time, records, config, call, due, direct>>

SendReturn_marks_always(e, success) ==
    /\ Alive
    /\ task[e].pc = "send"
    /\ last_notification_time' = mark_notification_sent(task[e].chat)
    /\ records' = IF success THEN MarkNotified(task[e].msg) ELSE records
    /\ task' = [task EXCEPT ![e] = AfterUser(task[e])]
    /\ ev' = NoEv
    /\ UNCHANGED <<reminder, pending_transactions, config, call, due, added, direct>>

\* _send_message_with_retry returns (main.py 334-343); the records are marked
\* one by one, each in its own commit, which the model takes as one step
SendReturn(e, success) ==
    /\ Alive
    /\ task[e].pc = "send"
    /\ IF success
       THEN /\ last_notification_time' = mark_notification_sent(task[e].chat)
            /\ records' = MarkNotified(task[e].msg)
       ELSE UNCHANGED <<reminder, last_notification_time, records>>
    /\ task' = [task EXCEPT ![e] = AfterUser(task[e])]
    /\ ev' = NoEv
    /\ UNCHANGED <<reminder, pending_transactions, config, call, due, added, direct>>

\* the executor once the user at the head of the sweep's list is done (main.py 360)
AfterSweepUser(e, t) ==
    IF Tail(t.users) # <<>>
    THEN [Rest("sweep_loop") EXCEPT !.users = Tail(t.users)]
    ELSE Rest(Returned(e))

\* _process_pending_transaction_batches up to its first await (main.py 351-357)
SweepStart(e) ==
    /\ Alive
    /\ task[e].pc = "sweep"
    /\ LET users_to_notify == SetToSeq(get_users_with_pending_batches)
       IN task' = [task EXCEPT ![e] =
                     IF users_to_notify = <<>> THEN Rest(Returned(e))
                     ELSE [Rest("sweep_loop") EXCEPT !.users = users_to_notify]]
    /\ ev' = NoEv
    /\ UNCHANGED <<reminder, pending_transactions, last_notification_time, records, config, call,
                   due, added, direct>>

\* one turn of the sweep's loop up to its await (main.py 360-369)
SweepDrain(e) ==
    /\ Alive
    /\ task[e].pc = "sweep_loop"
    /\ LET chat_id == Head(task[e].users)
           drained == get_and_clear_batch(chat_id)
           message == format_batch_notification_message(drained.transactions)
       IN /\ pending_transactions' = drained.pending_transactions
          /\ added' = [added EXCEPT ![chat_id] = <<>>]
          /\ task' = [task EXCEPT ![e] =
                        IF drained.transactions # <<>> /\ message.format # "empty"
                        THEN [task[e] EXCEPT !.pc = "sweep_send", !.chat = chat_id,
                                             !.msg = message.items]
                        ELSE AfterSweepUser(e, task[e])]
    /\ ev' = NoEv
    /\ UNCHANGED <<reminder, last_notification_time, records, config, call, due, direct>>

\* _send_message_with_retry returns to the sweep (main.py 371-380)
SweepSendReturn(e, success) ==
    /\ Alive
    /\ task[e].pc = "sweep_send"
    /\ IF success
       THEN /\ last_notification_time' = mark_notification_sent(task[e].chat)
            /\ records' = MarkNotified(task[e].msg)
       ELSE UNCHANGED <<reminder, last_notification_time, records>>
    /\ task' = [task EXCEPT ![e] = AfterSweepUser(e, task[e])]
    /\ ev' = NoEv
    /\ UNCHANGED <<reminder, pending_transactions, config, call, due, added, direct>>

\* --------------------------- the batcher called directly, as its tests call it
ApiShouldBatch(chat_id, transaction) ==
    /\ Alive
    /\ ev' = [NoEv EXCEPT !.op = "should_batch_notification", !.chat = chat_id,
                          !.tx = transaction,
                          !.ok = should_batch_notification(chat_id, transaction)]
    /\ UNCHANGED <<reminder, pending_transactions, last_notification_time, records, config, call,
                   task, due, added, direct>>

ApiAdd(chat_id, transaction) ==
    /\ Alive
    /\ Len(BatchOf(chat_id)) < MaxPending
    /\ pending_transactions' = add_transaction_to_batch(chat_id, transaction)
    /\ added' = [added EXCEPT ![chat_id] = Append(@, transaction)]
    /\ direct' = TRUE
    /\ ev' = NoEv
    /\ UNCHANGED <<reminder, last_notification_time, records, config, call, task, due>>

ApiGetAndClear(chat_id) ==
    /\ Alive
    /\ LET drained == get_and_clear_batch(chat_id)
       IN /\ pending_transactions' = drained.pending_transactions
          /\ ev' = [NoEv EXCEPT !.op = "get_and_clear_batch", !.chat = chat_id,
                                !.batch = drained.transactions,
                                !.before = added[chat_id]]
    /\ added' = [added EXCEPT ![chat_id] = <<>>]
    /\ direct' = TRUE
    /\ UNCHANGED <<reminder, last_notification_time, records, config, call, task, due>>

ApiMarkSent(chat_id) ==
    /\ Alive
    /\ last_notification_time' = mark_notification_sent(chat_id)
    /\ direct' = TRUE
    /\ ev' = NoEv
    /\ UNCHANGED <<reminder, pending_transactions, records, config, call, task, due, added>>

ApiGetUsers ==
    /\ Alive
    /\ ev' = [NoEv EXCEPT !.op = "get_users_with_pending_batches",
                          !.users = get_users_with_pending_batches]
    /\ UNCHANGED <<reminder, pending_transactions, last_notification_time, records, config, call,
                   task, due, added, direct>>

\* ------------------------------------------------- the batcher on its own
BatcherNext ==
    \/ Tick
    \/ \E c \in Chats, t \in Tx : ApiShouldBatch(c, t)
    \/ \E c \in Chats, t \in Tx : ApiAdd(c, t)
    \/ \E c \in Chats : ApiGetAndClear(c)
    \/ \E c \in Chats : ApiMarkSent(c)
    \/ ApiGetUsers

BatcherSpec == Init /\ [][BatcherNext]_vars

\* ------------------------------------------- the classifier on its own
\* the events a list is built from: one of every type code
Events == 1..Len(TypeCodes)

\* the lists the classifier is given: every short list, every list of the first
\* MaxKinds events up to MaxMixed, and those continued by repeats of their last
\* event up to MaxBatch
Arrive(t) ==
    /\ Alive
    /\ call.op \in {"none", "split_transactions_for_batching",
                    "group_transactions_by_priority"}
    /\ \/ Len(call.transactions) < MaxShort
       \/ /\ Len(call.transactions) < MaxMixed
          /\ Range(call.transactions) \cup {t} \subseteq 1..MaxKinds
       \/ /\ Len(call.transactions) < MaxBatch
          /\ Len(call.transactions) > 0
          /\ Range(call.transactions) \subseteq 1..MaxKinds
          /\ t = call.transactions[Len(call.transactions)]
    /\ call' = [NoCall EXCEPT !.transactions = Append(call.transactions, t)]
    /\ UNCHANGED <<reminder, pending_transactions, last_notification_time, records, config,
                   task, due, added, direct, ev>>

CallSplit ==
    /\ Alive
    /\ call.op = "none"
    /\ call' = [call EXCEPT !.op = "split_transactions_for_batching",
                            !.ok = should_separate_batch(call.transactions),
                            !.batches = split_transactions_for_batching(call.transactions)]
    /\ UNCHANGED <<reminder, pending_transactions, last_notification_time, records, config,
                   task, due, added, direct, ev>>

CallGroup ==
    /\ Alive
    /\ call.op = "none"
    /\ call' = [call EXCEPT !.op = "group_transactions_by_priority",
                            !.groups = group_transactions_by_priority(call.transactions)]
    /\ UNCHANGED <<reminder, pending_transactions, last_notification_time, records, config,
                   task, due, added, direct, ev>>

ClassifierNext ==
    \/ \E t \in Events : Arrive(t)
    \/ CallSplit
    \/ CallGroup

\* the settings play no part when a function is called on its own
CallInit == Init /\ ~telegram_chat_id

ClassifierSpec == CallInit /\ [][ClassifierNext]_vars

\* -------------------------------------- the preference filter on its own
\* the descriptions the filter is asked about
Descriptions ==
    {<<"m", "i", "n", "o", "r", " ", "l", "e", "a", "g", "u", "e">>,
     <<"M", "i", "n", "o", "r", " ", "L", "e", "a", "g", "u", "e">>,
     <<"t", "o", " ", "T", "r", "i", "p", "l", "e", "-", "A">>,
     <<"D", "O", "U", "B", "L", "E", "-", "A">>,
     <<"S", "i", "n", "g", "l", "e", "-", "A">>,
     <<"r", "o", "o", "k", "i", "e">>,
     <<"R", "o", "o", "k", "i", "e", "s">>,
     <<"t", "r", "a", "d", "e", "d">>,
     <<"t", "r", "i", "p", "l", "e", " ", "a">>,
     <<>>}

\* the user changes one setting (the preference commands of the bot)
Toggle(field) ==
    /\ Alive
    /\ call.op \in {"none", "should_notify_for_transaction"}
    /\ call.transactions = <<>>
    /\ call.responses = <<>>
    /\ call' = [NoCall EXCEPT !.prefs = [call.prefs EXCEPT ![field] = ~@]]
    /\ UNCHANGED <<reminder, pending_transactions, last_notification_time, records, config,
                   task, due, added, direct, ev>>

CallShouldNotify(tt, text) ==
    /\ Alive
    /\ call.op = "none"
    /\ call.transactions = <<>>
    /\ call.responses = <<>>
    /\ call' = [call EXCEPT !.op = "should_notify_for_transaction",
                            !.tt = tt, !.text = text,
                            !.ok = should_notify_for_transaction(call.prefs, tt, text)]
    /\ UNCHANGED <<reminder, pending_transactions, last_notification_time, records, config,
                   task, due, added, direct, ev>>

PreferenceNext ==
    \/ \E field \in PreferenceFields \cup {"major_league_only"} : Toggle(field)
    \/ \E tt \in TransactionType, text \in Descriptions : CallShouldNotify(tt, text)

PreferenceSpec == CallInit /\ [][PreferenceNext]_vars

\* ------------------------------------------------------------ the program
Next ==
    \/ Tick
    \/ \E e \in Executors, transactions \in Responses : SyncFetch(e, transactions)
    \/ \E e \in Executors : SyncFetchRaise(e)
    \/ \E e \in Executors : SaveStep(e)
    \/ \E e \in Executors, success \in BOOLEAN : ChannelSend(e, success)
    \/ \E e \in Executors : Handle(e)
    \/ \E e \in Executors, success \in BOOLEAN : SendReturn(e, success)
    \/ \E e \in Executors : SweepStart(e)
    \/ \E e \in Executors : SweepDrain(e)
    \/ \E e \in Executors, success \in BOOLEAN : SweepSendReturn(e, success)
    \/ \E c \in Chats, t \in Tx : ~direct /\ ApiAdd(c, t)

Spec == Init /\ [][Next]_vars

\* ------------------------------------------- the store fails after a send
\* the send succeeded, the batcher recorded it, and the first
\* mark_transaction_notified raises (repository.py 410-413): the handler's own
\* except clause logs and the loop over users goes on (main.py 345-347)
SendMarkRaise(e) ==
    /\ Alive
    /\ task[e].pc = "send"
    /\ last_notification_time' = mark_notification_sent(task[e].chat)
    /\ task' = [task EXCEPT ![e] = AfterUser(task[e])]
    /\ ev' = NoEv
    /\ UNCHANGED <<reminder, pending_transactions, records, config, call, due, added, direct>>

\* the same in the sweep, whose except clause is around its whole loop
\* (main.py 351, 382-383): the sweep is over
SweepMarkRaise(e) ==
    /\ Alive
    /\ task[e].pc = "sweep_send"
    /\ last_notification_time' = mark_notification_sent(task[e].chat)
    /\ task' = [task EXCEPT ![e] = Rest(Returned(e))]
    /\ ev' = NoEv
    /\ UNCHANGED <<reminder, pending_transactions, records, config, call, due, added, direct>>

\* the batcher is filled from outside before the bot's first sync, one
\* transaction for a recipient
Seed(chat_id, transaction) ==
    /\ task["initial"].pc = "start"
    /\ task["job"].pc = "idle"
    /\ BatchOf(chat_id) = <<>>
    /\ ApiAdd(chat_id, transaction)

\* the syncs of a bot without a channel, over a batcher filled from outside
StoreFailureNext ==
    \/ Tick
    \/ \E e \in Executors, transactions \in Responses : SyncFetch(e, transactions)
    \/ \E e \in Executors : SaveStep(e)
    \/ \E e \in Executors : Handle(e)
    \/ \E e \in Executors, success \in BOOLEAN : SendReturn(e, success)
    \/ \E e \in Executors : SweepStart(e)
    \/ \E e \in Executors : SweepDrain(e)
    \/ \E e \in Executors, success \in BOOLEAN : SweepSendReturn(e, success)
    \/ \E e \in Executors : SendMarkRaise(e)
    \/ \E e \in Executors : SweepMarkRaise(e)
    \/ \E c \in Chats, t \in Tx : Seed(c, t)

StoreFailureSpec == CallInit /\ [][StoreFailureNext]_vars

\* a step of executor e
Step(e) ==
    \/ \E transactions \in Responses : SyncFetch(e, transactions)
    \/ SyncFetchRaise(e)
    \/ SaveStep(e)
    \/ \E success \in BOOLEAN : ChannelSend(e, success)
    \/ Handle(e)
    \/ \E success \in BOOLEAN : SendReturn(e, success)
    \/ SweepStart(e)
    \/ SweepDrain(e)
    \/ \E success \in BOOLEAN : SweepSendReturn(e, success)

\* the clock keeps moving and the trigger keeps firing; every await returns, so
\* an executor that can step does; the upstream keeps answering and sends keep
\* succeeding
FairSpec ==
    /\ Spec
    /\ WF_vars(Tick)
    /\ \A e \in Executors :
          /\ WF_vars(Step(e))
          /\ SF_vars(\E transactions \in Responses : SyncFetch(e, transactions))
          /\ SF_vars(SendReturn(e, TRUE))
          /\ SF_vars(SweepSendReturn(e, TRUE))

\* ------------------------------------------- _send_message_with_retry calls
max_retries == 3

\* Telegram names the cooldown in whole seconds, as an int or as a timedelta
RetryAfterValues ==
    [type : {"int", "timedelta"}, seconds : {0, 30}]

\* wait_time: retry_after + 1, or int(retry_after.total_seconds()) + 1
wait_time(retry_after) ==
    IF retry_after.type = "int"
    THEN retry_after.seconds + 1
    ELSE (retry_after.seconds * 1000000) \div 1000000 + 1

\* the retry_after field of a pass that was not rate limited
NoRetryAfter == [type |-> "int", seconds |-> 0]

backoff_constant(attempt) == 1

\* asyncio.sleep(2 ** attempt), attempt counted from 0
backoff(attempt) == 2 ^ attempt

\* what one pass of the loop leaves behind: the answer of bot.send_message,
\* and the sleep that followed it, if any
Pass(kind, retry_after, slept, wait) ==
    [kind |-> kind, retry_after |-> retry_after, slept |-> slept, wait |-> wait,
     error |-> kind]

\* the classes of telegram.error that reach the TelegramError clause: a network
\* failure, and the two answers that no retry can change, the bot blocked by
\* the user (Forbidden) and a chat that does not exist (BadRequest)
TelegramErrors == {"NetworkError", "Forbidden", "BadRequest"}

\* the value of the loop variable in the pass about to run
attempt == Len(call.responses)

Sending ==
    /\ call.op = "_send_message_with_retry"
    /\ ~call.done
    /\ attempt < max_retries

Frame ==
    UNCHANGED <<reminder, pending_transactions, last_notification_time, records, config,
                task, due, added, direct, ev>>

\* a caller hands a message to _send_message_with_retry
CallSendMessage ==
    /\ call = NoCall
    /\ call' = [NoCall EXCEPT !.op = "_send_message_with_retry"]
    /\ Frame

\* bot.send_message returns: return True
SendOk ==
    /\ Sending
    /\ call' = [call EXCEPT
           !.responses = Append(@, Pass("ok", NoRetryAfter, FALSE, 0)),
           !.done = TRUE, !.ok = TRUE]
    /\ Frame

\* bot.send_message raises RetryAfter: sleep wait_time and go on, or give up
\* in the last pass
SendRetryAfter(retry_after) ==
    /\ Sending
    /\ IF attempt < max_retries - 1
       THEN call' = [call EXCEPT
                !.responses = Append(@, Pass("RetryAfter", retry_after,
                                             TRUE, wait_time(retry_after))),
                !.waits = Append(@, wait_time(retry_after))]
       ELSE call' = [call EXCEPT
                !.responses = Append(@, Pass("RetryAfter", retry_after,
                                             FALSE, 0)),
                !.done = TRUE, !.ok = FALSE]
    /\ Frame

\* bot.send_message raises another TelegramError: sleep 2 ** attempt and go
\* on, or give up in the last pass
SendTelegramError(error) ==
    /\ Sending
    /\ IF attempt < max_retries - 1
       THEN call' = [call EXCEPT
                !.responses = Append(@, [Pass("TelegramError", NoRetryAfter, TRUE,
                                              backoff(attempt)) EXCEPT !.error = error]),
                !.waits = Append(@, backoff(attempt))]
       ELSE call' = [call EXCEPT
                !.responses = Append(@, [Pass("TelegramError", NoRetryAfter, FALSE, 0)
                                            EXCEPT !.error = error]),
                !.done = TRUE, !.ok = FALSE]
    /\ Frame

\* bot.send_message raises anything else: return False at once
SendException ==
    /\ Sending
    /\ call' = [call EXCEPT
           !.responses = Append(@, Pass("Exception", NoRetryAfter, FALSE, 0)),
           !.done = TRUE, !.ok = FALSE]
    /\ Frame

RetryNext ==
    \/ CallSendMessage
    \/ SendOk
    \/ \E retry_after \in RetryAfterValues : SendRetryAfter(retry_after)
    \/ \E error \in TelegramErrors : SendTelegramError(error)
    \/ SendException

RetrySpec == CallInit /\ [][RetryNext]_vars

\* ----------------------------------------------------- notification jobs
MaxAttempts == 3

\* the one game whose reminder these calls are about
JobId == 1

mark_sent(j) == [j EXCEPT !.status = "sent", !.sent_at = TRUE]

mark_failed(j) ==
    [j EXCEPT !.status = "failed", !.error_message = TRUE, !.attempts = @ + 1]

mark_cancelled(j) == [j EXCEPT !.status = "cancelled"]

\* save_notification_job: the row of the job id is updated, or inserted
save_notification_job(job_id, j) ==
    [i \in DOMAIN job_records \cup {job_id} |-> IF i = job_id THEN j ELSE job_records[i]]

JobFrame ==
    UNCHANGED <<pending_transactions, last_notification_time, records, config,
                task, due, added, direct, ev,
                scheduled, games, inflight, sent, running, sync_due>>

\* no delivery is under way
Quiet == call.op \in {"none", "send_notification"}

JobMarkSent ==
    /\ Quiet
    /\ job' = mark_sent(job)
    /\ UNCHANGED <<job_records, call>>
    /\ JobFrame

JobMarkFailed ==
    /\ Quiet
    /\ job.attempts < MaxAttempts
    /\ job' = mark_failed(job)
    /\ UNCHANGED <<job_records, call>>
    /\ JobFrame

JobMarkCancelled ==
    /\ Quiet
    /\ job' = mark_cancelled(job)
    /\ UNCHANGED <<job_records, call>>
    /\ JobFrame

JobSave ==
    /\ Quiet
    /\ job_records' = save_notification_job(JobId, job)
    /\ UNCHANGED <<job, call>>
    /\ JobFrame

\* send_notification with no chat to send to (telegram_bot.py 81-85): False,
\* and the job is left as it was
SendNotificationNoChat ==
    /\ Quiet
    /\ ~telegram_chat_id
    /\ call' = [NoCall EXCEPT !.op = "send_notification", !.done = TRUE]
    /\ UNCHANGED <<job, job_records>>
    /\ JobFrame

\* send_notification hands the message to _send_message_with_retry
SendNotification ==
    /\ Quiet
    /\ telegram_chat_id
    /\ job.attempts < MaxAttempts
    /\ call' = [NoCall EXCEPT !.op = "_send_message_with_retry"]
    /\ UNCHANGED <<job, job_records>>
    /\ JobFrame

\* _send_message_with_retry has returned: the job is marked, and saved unless
\* the save fails, which _save_notification_job only logs
SendNotificationReturn(saved) ==
    /\ call.op = "_send_message_with_retry"
    /\ call.done
    /\ job' = IF call.ok THEN mark_sent(job) ELSE mark_failed(job)
    /\ job_records' = IF saved THEN save_notification_job(JobId, job')
                      ELSE job_records
    /\ call' = [call EXCEPT !.op = "send_notification"]
    /\ JobFrame

JobNext ==
    \/ JobMarkSent
    \/ JobMarkFailed
    \/ JobMarkCancelled
    \/ JobSave
    \/ SendNotificationNoChat
    \/ SendNotification
    \/ SendOk
    \/ \E retry_after \in RetryAfterValues : SendRetryAfter(retry_after)
    \/ \E error \in TelegramErrors : SendTelegramError(error)
    \/ SendException
    \/ \E saved \in BOOLEAN : SendNotificationReturn(saved)

JobSpec == Init /\ [][JobNext]_vars

\* ------------------------------------------------------ the game scheduler
\* Times are minutes from now: a run_date or a game date of 0 is now, a
\* negative one is past. Time is followed minute by minute around the run
\* dates and day by day between them, and a past time is forgotten below Past.
Past == 0 - (stale_minutes + 2)

Later(time, minutes) ==
    IF time - minutes < Past THEN Past ELSE time - minutes

\* the grace period of the job defaults, in minutes
Grace == misfire_grace_time \div 60

too_far_in_the_past_inclusive(scheduled_time) == scheduled_time <= 0 - stale_minutes

\* job.scheduled_time < datetime.utcnow() - timedelta(minutes=5)
too_far_in_the_past(scheduled_time) == scheduled_time < 0 - stale_minutes

\* scheduler.add_job(..., id=job.job_id, replace_existing=True)
add_job(store, g, run_date) ==
    [i \in DOMAIN store \cup {g} |-> IF i = g THEN run_date ELSE store[i]]

remove_job_nothing(store, g) == store

\* scheduler.remove_job(job_id), and the removal of a date job that has run
remove_job(store, g) ==
    [i \in DOMAIN store \ {g} |-> store[i]]

\* schedule_notification_job: the store it leaves
schedule_notification_job(store, g, scheduled_time) ==
    IF too_far_in_the_past(scheduled_time) THEN store
    ELSE add_job(store, g, scheduled_time)

SchedulerFrame ==
    UNCHANGED <<pending_transactions, last_notification_time, records, config,
                task, due, added, direct, ev, job>>

\* the scheduled times a caller may ask for
Offsets == {0 - stale_minutes - 1, 0 - stale_minutes, 0, 1}

\* schedule_notification_job called for a job of game g
ApiSchedule(g, scheduled_time) ==
    /\ scheduled' = schedule_notification_job(scheduled, g, scheduled_time)
    /\ call' = [NoCall EXCEPT !.op = "schedule_notification_job", !.game = g,
                              !.offset = scheduled_time,
                              !.ok = ~too_far_in_the_past(scheduled_time)]
    /\ UNCHANGED <<job_records, games, inflight, sent, running, sync_due>>
    /\ SchedulerFrame

\* cancel_notification_job: remove_job raises JobLookupError for an id the
\* store does not hold, and the method returns False
ApiCancel(g) ==
    /\ scheduled' = IF g \in DOMAIN scheduled THEN remove_job(scheduled, g) ELSE scheduled
    /\ call' = [NoCall EXCEPT !.op = "cancel_notification_job", !.game = g,
                              !.ok = g \in DOMAIN scheduled]
    /\ UNCHANGED <<job_records, games, inflight, sent, running, sync_due>>
    /\ SchedulerFrame

\* the scheduler finds the job of g due and within the grace period: the job
\* leaves the store and _notification_wrapper is started, unless an instance
\* of the job is still running (max_instances = 1)
Fire(g) ==
    /\ running
    /\ g \in DOMAIN scheduled
    /\ scheduled[g] <= 0
    /\ 0 - scheduled[g] <= Grace
    /\ scheduled' = remove_job(scheduled, g)
    /\ inflight' = inflight \cup {g}
    /\ call' = NoCall
    /\ UNCHANGED <<job_records, games, sent, running, sync_due>>
    /\ SchedulerFrame

\* the scheduler finds the job of g later than the grace period: the run is
\* missed and the job leaves the store
Misfire(g) ==
    /\ running
    /\ g \in DOMAIN scheduled
    /\ 0 - scheduled[g] > Grace
    /\ scheduled' = remove_job(scheduled, g)
    /\ call' = NoCall
    /\ UNCHANGED <<job_records, games, inflight, sent, running, sync_due>>
    /\ SchedulerFrame

\* _notification_wrapper ends: send_notification has marked and saved the job
\* of the firing, or the callback has raised and the wrapper has logged it
Deliver(g, outcome) ==
    /\ g \in inflight
    /\ inflight' = inflight \ {g}
    /\ job_records' =
          IF outcome = "sent" THEN save_notification_job(g, mark_sent(NewJob))
          ELSE IF outcome = "failed" THEN save_notification_job(g, mark_failed(NewJob))
          ELSE job_records
    /\ sent' = IF outcome = "sent"
               THEN [sent EXCEPT ![g] = IF @ < MaxSent THEN @ + 1 ELSE @]
               ELSE sent
    /\ call' = [NoCall EXCEPT !.op = "_notification_wrapper", !.game = g,
                              !.ok = (outcome = "sent"), !.done = (outcome # "raised")]
    /\ UNCHANGED <<scheduled, games, running, sync_due>>
    /\ SchedulerFrame

\* a minute passes
Minute ==
    /\ scheduled # <<>>
    /\ \A g \in DOMAIN scheduled : scheduled[g] <= 1
    /\ \A g \in DOMAIN games : games[g].date < Day
    /\ running => \A g \in DOMAIN scheduled : scheduled[g] > 0
    /\ scheduled' = [g \in DOMAIN scheduled |-> Later(scheduled[g], 1)]
    /\ games' = [g \in DOMAIN games |-> [games[g] EXCEPT !.date = Later(@, 1)]]
    /\ call' = NoCall
    /\ UNCHANGED <<job_records, inflight, sent, running, sync_due>>
    /\ SchedulerFrame

\* a day passes, and with it the hour of the daily schedule sync
DayPasses ==
    /\ inflight = {}
    /\ sync_due = "none"
    /\ running => \A g \in DOMAIN scheduled : scheduled[g] >= Day
    /\ scheduled' = [g \in DOMAIN scheduled |-> Later(scheduled[g], Day)]
    /\ games' = [g \in DOMAIN games |-> [games[g] EXCEPT !.date = Later(@, Day)]]
    /\ sync_due' = IF running THEN "daily" ELSE "none"
    /\ call' = NoCall
    /\ UNCHANGED <<job_records, inflight, sent, running>>
    /\ SchedulerFrame

\* the process stops, once the running jobs have ended (shutdown(wait=True))
Stop ==
    /\ running
    /\ inflight = {}
    /\ running' = FALSE
    /\ sync_due' = "none"
    /\ call' = NoCall
    /\ UNCHANGED <<job_records, scheduled, games, inflight, sent>>
    /\ SchedulerFrame

\* MarinersBot.start: the scheduler starts on the stored jobs, and the first
\* schedule sync is about to run
Start ==
    /\ ~running
    /\ running' = TRUE
    /\ sync_due' = "initial"
    /\ call' = NoCall
    /\ UNCHANGED <<job_records, scheduled, games, inflight, sent>>
    /\ SchedulerFrame

\* what the upstream reports of a game: not in the schedule, or its row
Upstream ==
    {[date |-> Day + notification_advance_minutes, status |-> st, notification_sent |-> FALSE]
        : st \in {"scheduled", "cancelled"}}

\* save_game for every game of the report
save_games(report) ==
    [g \in DOMAIN games \cup DOMAIN report |->
        IF g \in DOMAIN report THEN report[g] ELSE games[g]]

\* _get_upcoming_games over a table: the scheduled games not notified that
\* start tomorrow or later
get_upcoming_games(table) ==
    {g \in DOMAIN table :
        /\ table[g].date > 0
        /\ ~table[g].notification_sent
        /\ table[g].status = "scheduled"
        /\ table[g].date >= Day}

_should_schedule_game(row) ==
    /\ ~row.notification_sent
    /\ row.status = "scheduled"
    /\ ~(row.date - notification_advance_minutes < 0)

\* schedule_game_notifications over the games of a list
RECURSIVE schedule_game_notifications(_, _, _)
schedule_game_notifications(store, table, list) ==
    IF list = <<>> THEN store
    ELSE LET g == Head(list)
             next == IF _should_schedule_game(table[g])
                     THEN schedule_notification_job(store, g,
                              table[g].date - notification_advance_minutes)
                     ELSE store
         IN schedule_game_notifications(next, table, Tail(list))

\* _sync_schedule runs to its end on the report of the upstream
SyncSchedule(report) ==
    /\ running
    /\ sync_due # "none"
    /\ sync_due' = "none"
    /\ IF report = <<>>
       THEN UNCHANGED <<games, scheduled>>
       ELSE /\ games' = save_games(report)
            /\ scheduled' = schedule_game_notifications(scheduled, games',
                                SetToSeq(get_upcoming_games(games')))
    /\ call' = NoCall
    /\ UNCHANGED <<job_records, inflight, sent, running>>
    /\ SchedulerFrame

Caught_never(sync) == FALSE

\* the daily sync runs inside _sync_schedule_wrapper, which catches what it
\* raises; the first sync is awaited by MarinersBot.start
Caught(sync) == sync = "daily"

\* _sync_schedule raises (main.py 174-176): _sync_schedule_wrapper logs it, and
\* MarinersBot.start, which calls it unwrapped, raises and the process ends
SyncScheduleRaise ==
    /\ running
    /\ sync_due # "none"
    /\ sync_due' = "none"
    /\ running' = Caught(sync_due)
    /\ inflight' = IF Caught(sync_due) THEN inflight ELSE {}
    /\ call' = [NoCall EXCEPT !.op = "_sync_schedule"]
    /\ UNCHANGED <<job_records, scheduled, games, sent>>
    /\ SchedulerFrame

ReminderNext ==
    \/ \E g \in Games, scheduled_time \in Offsets : ApiSchedule(g, scheduled_time)
    \/ \E g \in Games : ApiCancel(g)
    \/ \E g \in Games : Fire(g)
    \/ \E g \in Games : Misfire(g)
    \/ \E g \in Games, outcome \in {"sent", "failed", "raised"} : Deliver(g, outcome)
    \/ Minute
    \/ DayPasses
    \/ Stop
    \/ Start
    \/ \E report \in UNION {[D -> Upstream] : D \in SUBSET Games} : SyncSchedule(report)
    \/ SyncScheduleRaise

ReminderSpec == CallInit /\ [][ReminderNext]_vars

\* ---------------------------------------------- the scheduled runs together
\* the runs the two schedulers start: the transaction sync of every interval
\* with an upstream that fails or has nothing, the daily schedule sync and the
\* reminders; each scheduler keeps its own clock
WrapperNext ==
    \/ ReminderNext
    \/ Tick
    \/ SyncFetchRaise("job")
    \/ SyncFetch("job", <<>>)

WrapperSpec == CallInit /\ [][WrapperNext]_vars

\* ------------------------------------------- the transaction table on its own
\* what the upstream may report as the description of a transaction: one of
\* the texts of the model's transactions, or a later wording
Revised == <<"r", "e", "v", "i", "s", "e", "d">>

Reports(t) == {description(u) : u \in Tx} \cup {Revised}

StoreFrame ==
    UNCHANGED <<reminder, pending_transactions, last_notification_time, config,
                task, due, added, direct, ev>>

ApiSaveTransaction(t, text) ==
    /\ records' = save_transaction_as(t, text)
    /\ call' = [NoCall EXCEPT !.op = "save_transaction", !.transactions = <<t>>,
                              !.text = text]
    /\ StoreFrame

\* mark_transaction_notified: an UPDATE, which changes nothing for an id that
\* has no row
ApiMarkTransactionNotified(t) ==
    /\ records' = MarkNotified(<<t>>)
    /\ call' = [NoCall EXCEPT !.op = "mark_transaction_notified", !.transactions = <<t>>]
    /\ StoreFrame

ApiGetNewTransactions ==
    /\ call' = [NoCall EXCEPT !.op = "get_new_transactions",
                              !.transactions = SetToSeq(get_new_transactions)]
    /\ UNCHANGED records
    /\ StoreFrame

StoreNext ==
    \/ \E t \in Tx : \E text \in Reports(t) : ApiSaveTransaction(t, text)
    \/ \E t \in Tx : ApiMarkTransactionNotified(t)
    \/ ApiGetNewTransactions

StoreSpec == CallInit /\ [][StoreNext]_vars

\* ----------------------------------------------- one sync, any user table
\* the rows a user may have stored: one that wants everything, one that wants
\* every type of the major league only, one that wants no trades
StoredRows ==
    {AllPreferences,
     [AllPreferences EXCEPT !.major_league_only = TRUE],
     [AllPreferences EXCEPT !.trades = FALSE]}

\* the bot starts with any users subscribed and any rows stored, no channel
RouteInit ==
    /\ pending_transactions = <<>>
    /\ last_notification_time = <<>>
    /\ records = <<>>
    /\ subscribed \in SUBSET Chats
    /\ telegram_chat_id = FALSE
    /\ task = [e \in Executors |-> Rest(IF e = "initial" THEN "start" ELSE "idle")]
    /\ due = FALSE
    /\ added = [c \in Chats |-> <<>>]
    /\ direct = FALSE
    /\ ev = NoEv
    /\ preferences \in UNION {[D -> StoredRows] : D \in SUBSET Chats}
    /\ call = NoCall
    /\ job = NewJob
    /\ job_records = <<>>
    /\ SchedulerInit

\* the sync that MarinersBot.start runs, and one transaction put in a buffer
\* from outside
RouteNext ==
    \/ \E transactions \in Responses : SyncFetch("initial", transactions)
    \/ SyncFetchRaise("initial")
    \/ SaveStep("initial")
    \/ Handle("initial")
    \/ \E success \in BOOLEAN : SendReturn("initial", success)
    \/ SweepStart("initial")
    \/ SweepDrain("initial")
    \/ \E success \in BOOLEAN : SweepSendReturn("initial", success)
    \/ \E c \in Chats, t \in Tx : ~direct /\ ApiAdd(c, t)

RouteSpec == RouteInit /\ [][RouteNext]_vars

\* ------------------------------------------------- the users' commands
\* User.subscribed when the handler does not give it (user.py 16)
DefaultSubscribed == TRUE

\* save_user: the row of chat_id gets the subscribed flag of the User saved
save_user(chat_id, flag) ==
    IF flag THEN subscribed \cup {chat_id} ELSE subscribed \ {chat_id}

\* what is left alone when a handler saves its User
UserFrame ==
    UNCHANGED <<reminder, pending_transactions, last_notification_time, records,
                telegram_chat_id, preferences, task, due, added, direct, ev>>

Handled(handler, chat_id) == [NoCall EXCEPT !.op = handler, !.chat = chat_id]

HandleStart(chat_id) ==
    /\ subscribed' = save_user(chat_id, DefaultSubscribed)
    /\ call' = Handled("_handle_start", chat_id)
    /\ UserFrame

HandleSubscribe(chat_id) ==
    /\ subscribed' = save_user(chat_id, TRUE)
    /\ call' = Handled("_handle_subscribe", chat_id)
    /\ UserFrame

HandleUnsubscribe(chat_id) ==
    /\ subscribed' = save_user(chat_id, FALSE)
    /\ call' = Handled("_handle_unsubscribe", chat_id)
    /\ UserFrame

\* a text that is no command, in a private chat
HandleMessage(chat_id) ==
    /\ subscribed' = save_user(chat_id, DefaultSubscribed)
    /\ call' = Handled("_handle_message", chat_id)
    /\ UserFrame

\* the sync asks for the users of a transaction
CallGetUsers(transaction) ==
    /\ call' = [NoCall EXCEPT !.op = "get_users_for_transaction_notification",
                              !.transactions = <<transaction>>,
                              !.data = get_users_for_transaction_notification(transaction)]
    /\ UNCHANGED <<reminder, pending_transactions, last_notification_time, records, config,
                   task, due, added, direct, ev>>

UserNext ==
    \/ \E c \in Chats : HandleStart(c)
    \/ \E c \in Chats : HandleSubscribe(c)
    \/ \E c \in Chats : HandleUnsubscribe(c)
    \/ \E c \in Chats : HandleMessage(c)
    \/ \E t \in Tx : CallGetUsers(t)

UserSpec == RouteInit /\ [][UserNext]_vars

\* ================================================================ properties

\* the events a message in flight took out of the buffer: all of a sweep's
\* message, all but the arriving event of a handler's
PendingPart(t) ==
    IF t.pc = "send" THEN SubSeq(t.msg, 1, Len(t.msg) - 1) ELSE t.msg

\* the recipient's buffer after a step
BatchAfter(chat_id) ==
    IF chat_id \in DOMAIN pending_transactions'
    THEN pending_transactions'[chat_id] ELSE <<>>

\* executor e handles transaction t for recipient c in this step
Handles(e, c, t) ==
    /\ Handle(e)
    /\ c = Head(task[e].users)
    /\ t = Head(task[e].new)

\* C1: a transaction routed to a recipient with no recorded last-notification
\* time is never batched: should_batch_notification is false, the handler sends
\* at once one message of the pending transactions and this one, nothing is
\* appended to the buffer.
C1_FirstSentImmediately ==
    [][\A e \in Executors, c \in Chats, t \in Tx :
         (Handles(e, c, t) /\ c \notin DOMAIN last_notification_time)
            => /\ ~should_batch_notification(c, t)
               /\ task'[e].pc = "send"
               /\ task'[e].chat = c
               /\ task'[e].msg = BatchOf(c) \o <<t>>
               /\ BatchAfter(c) = <<>>]_vars

C1_Witness ==
    \E e \in Executors :
        /\ task[e].pc = "send"
        /\ task[e].chat \notin DOMAIN last_notification_time
        /\ BatchOf(task[e].chat) = <<>>

\* C2: after a delivery to a recipient, a transaction the bot routes to it
\* within the batch window is appended to its buffer and not sent.
C2_WithinWindowBatched ==
    [][\A e \in Executors, c \in Chats, t \in Tx :
         (/\ Handles(e, c, t)
          /\ c \in DOMAIN last_notification_time
          /\ Elapsed(c) <= batch_window_minutes)
            => /\ task'[e].pc # "send"
               /\ BatchAfter(c) = Append(BatchOf(c), t)]_vars

\* C3: a transaction whose record is marked notified is not classified as new
\* when a later sync fetches it again.
C3_NotifiedNotNewAgain ==
    [][\A e \in Executors, t \in Tx :
         (/\ SaveStep(e)
          /\ t = Head(task[e].txs)
          /\ t \in DOMAIN records
          /\ records[t].notification_sent)
            => t \notin Range(task'[e].new)]_vars

\* C4: when the send of a flush fails, in the handler or in the sweep, the
\* recipient's buffer holds again the events the flush took out of it.
C4_FailedFlushKeepsPending ==
    [][\A e \in Executors, c \in Chats :
         (/\ c = task[e].chat
          /\ SendReturn(e, FALSE) \/ SweepSendReturn(e, FALSE))
            => IsPrefix(PendingPart(task[e]), BatchAfter(c))]_vars

\* C5: while the process lives, a recipient's non-empty buffer is eventually
\* emptied by a flush.
C5_PendingEventuallyFlushed ==
    \A c \in Chats : (BatchOf(c) # <<>>) ~> (BatchOf(c) = <<>> \/ ~Alive)

\* C6: while the sweep and the handler of an arriving event both have a message
\* in flight for the same recipient, no event that either took out of the buffer
\* is dropped: when one of the two sends ends, its events are delivered or in
\* the buffer.
C6_RaceLosesNothing ==
    [][\A e \in Executors, f \in Executors, c \in Chats :
         (/\ task[e].pc = "sweep_send" /\ task[e].chat = c
          /\ task[f].pc = "send" /\ task[f].chat = c)
            => \A g \in {e, f} :
                  \/ task'[g] = task[g]
                  \/ SweepSendReturn(g, TRUE)
                  \/ SendReturn(g, TRUE)
                  \/ Range(PendingPart(task[g])) \subseteq Range(BatchAfter(c))]_vars

\* C7: should_batch_notification is true exactly when the recipient has a
\* recorded time, at most batch_window_minutes have elapsed since it, and its
\* buffer is not empty; the transaction makes no difference, nor does any other
\* recipient.
C7_ShouldBatchIff ==
    ev.op = "should_batch_notification"
        => /\ ev.ok = (/\ ev.chat \in DOMAIN last_notification_time
                       /\ Elapsed(ev.chat) <= batch_window_minutes
                       /\ BatchOf(ev.chat) # <<>>)
           /\ \A t \in Tx : should_batch_notification(ev.chat, t) = ev.ok

C7_Witness ==
    /\ ev.op = "should_batch_notification"
    /\ ev.ok
    /\ Elapsed(ev.chat) = batch_window_minutes
    /\ \E c \in Chats : c # ev.chat /\ BatchOf(c) = <<>>

\* C8: a transaction routed to a recipient whose recorded time is more than
\* batch_window_minutes old goes out at once in one message, after the pending
\* ones; the buffer is empty then, and when the send has succeeded the recorded
\* time is the time of the send.
C8_LateArrivalFlushesAll ==
    [][\A e \in Executors, c \in Chats :
         /\ \A t \in Tx :
              (/\ Handles(e, c, t)
               /\ c \in DOMAIN last_notification_time
               /\ Elapsed(c) > batch_window_minutes)
                 => /\ task'[e].pc = "send"
                    /\ task'[e].chat = c
                    /\ task'[e].msg = BatchOf(c) \o <<t>>
                    /\ BatchAfter(c) = <<>>
         /\ (SendReturn(e, TRUE) /\ task[e].chat = c)
               => /\ c \in DOMAIN last_notification_time'
                  /\ last_notification_time'[c] = 0
                  /\ BatchAfter(c) = BatchOf(c)]_vars

C8_Witness ==
    \E e \in Executors :
        /\ task[e].pc = "send"
        /\ Len(task[e].msg) = 2
        /\ BatchOf(task[e].chat) = <<>>
        /\ task[e].chat \in DOMAIN last_notification_time
        /\ Elapsed(task[e].chat) > batch_window_minutes

\* C9: get_and_clear_batch returns the transactions added for the recipient
\* since its previous drain, in order, and leaves the buffer empty; a buffer
\* always holds exactly the transactions added since the last drain.
C9_DrainReturnsAdds ==
    /\ ev.op = "get_and_clear_batch"
          => /\ ev.batch = ev.before
             /\ BatchOf(ev.chat) = <<>>
    /\ \A c \in Chats : BatchOf(c) = added[c]

C9_Witness ==
    /\ ev.op = "get_and_clear_batch"
    /\ Len(ev.batch) = 2
    /\ ev.batch[1] # ev.batch[2]

\* C10: of the recipients with a recorded time, get_users_with_pending_batches
\* returns those whose buffer is not empty and whose recorded time is more than
\* batch_window_minutes old, and no other.
C10_SweepIffOverdue ==
    ev.op = "get_users_with_pending_batches"
        => \A c \in DOMAIN last_notification_time :
              c \in ev.users <=> (/\ BatchOf(c) # <<>>
                                  /\ Elapsed(c) > batch_window_minutes)

\* ---------------------------------------------------------- the classifier
\* the batches of a result, one after the other
RECURSIVE Flatten(_)
Flatten(batches) ==
    IF batches = <<>> THEN <<>> ELSE Head(batches) \o Flatten(Tail(batches))

\* the tiers as the specification gives them, by type code
IsHigh(t) == type_code(t) \in {"TR", "SFA"}
IsMedium(t) == type_code(t) \in {"REC", "ACT", "IL", "OPT"}
IsLow(t) == ~IsHigh(t) /\ ~IsMedium(t)

\* how often x occurs in a list
Count(list, x) == Cardinality({i \in 1..Len(list) : list[i] = x})

\* C11: the batches of split_transactions_for_batching, one after the other,
\* hold every event of the input as often as the input does, and the events of
\* each tier are in their input order.
C11_SplitPermutes ==
    call.op = "split_transactions_for_batching"
        => LET out == Flatten(call.batches)
           IN /\ Len(out) = Len(call.transactions)
              /\ \A x \in Events : Count(out, x) = Count(call.transactions, x)
              /\ SelectSeq(out, IsHigh) = SelectSeq(call.transactions, IsHigh)
              /\ SelectSeq(out, IsMedium) = SelectSeq(call.transactions, IsMedium)
              /\ SelectSeq(out, IsLow) = SelectSeq(call.transactions, IsLow)

C11_Witness ==
    /\ call.op = "split_transactions_for_batching"
    /\ Len(call.batches) = 3
    /\ Flatten(call.batches) # call.transactions
    /\ \E i, j \in 1..Len(call.transactions) :
          /\ i < j
          /\ IsHigh(call.transactions[i]) /\ IsHigh(call.transactions[j])
          /\ call.transactions[i] # call.transactions[j]


\* the condition on which the classifier separates, as the specification gives it
SplitCondition(transactions) ==
    \/ /\ \E i \in 1..Len(transactions) : IsHigh(transactions[i])
       /\ \E i \in 1..Len(transactions) : IsLow(transactions[i])
    \/ Len(transactions) > 5

\* what the classifier returns when it does not separate
Unsplit(transactions) ==
    IF transactions = <<>> THEN <<>> ELSE <<transactions>>

\* C12 as stated: the classifier returns several batches exactly when a High
\* and a Low event are both present or there are more than 5 events, and
\* otherwise one batch equal to the input (none for an empty input).
C12_SeveralIffCondition ==
    call.op = "split_transactions_for_batching"
        => /\ (Len(call.batches) > 1) <=> SplitCondition(call.transactions)
           /\ ~SplitCondition(call.transactions)
                 => call.batches = Unsplit(call.transactions)

\* C12: should_separate_batch is true exactly when a High and a Low event are
\* both present or there are more than 5 events; the classifier returns several
\* batches exactly when that holds and some event is not High; when it does not
\* hold the result is one batch equal to the input (none for an empty input).
C12_SeparatesIffCondition ==
    call.op = "split_transactions_for_batching"
        => /\ call.ok <=> SplitCondition(call.transactions)
           /\ (Len(call.batches) > 1)
                 <=> /\ SplitCondition(call.transactions)
                     /\ \E i \in 1..Len(call.transactions) : ~IsHigh(call.transactions[i])
           /\ ~SplitCondition(call.transactions)
                 => call.batches = Unsplit(call.transactions)

C12_Witness ==
    /\ call.op = "split_transactions_for_batching"
    /\ SplitCondition(call.transactions)
    /\ Len(call.batches) = 1
    /\ Len(call.batches[1]) > 5

\* C13: when the classifier separates, the High events, if any, are the first
\* batch, whole and in arrival order; the other batches are the Medium events
\* and then the Low events, each tier in arrival order, cut into consecutive
\* chunks of five with what is left as the last one; no batch is empty.
C13_HighFirstThenChunks ==
    (call.op = "split_transactions_for_batching" /\ SplitCondition(call.transactions))
        => LET high == SelectSeq(call.transactions, IsHigh)
               medium_low == SelectSeq(call.transactions, IsMedium)
                                \o SelectSeq(call.transactions, IsLow)
               rest == IF high # <<>> THEN Tail(call.batches) ELSE call.batches
           IN /\ call.batches # <<>>
              /\ high # <<>> => Head(call.batches) = high
              /\ Flatten(rest) = medium_low
              /\ \A i \in 1..Len(rest) :
                    /\ Len(rest[i]) \in 1..5
                    /\ i < Len(rest) => Len(rest[i]) = 5
              /\ \A i \in 1..Len(call.batches) : call.batches[i] # <<>>

C13_Witness ==
    /\ call.op = "split_transactions_for_batching"
    /\ Len(call.transactions) = 11
    /\ \A i \in 1..11 : IsLow(call.transactions[i])
    /\ Len(call.batches) = 3
    /\ Len(call.batches[1]) = 5 /\ Len(call.batches[2]) = 5 /\ Len(call.batches[3]) = 1

\* C14: group_transactions_by_priority puts the trades and free-agent signings,
\* in input order, in the High list, the recalls, activations, injured-list
\* moves and options in the Medium list, and every other event, unknown type
\* codes included, in the Low list.
C14_StablePartition ==
    call.op = "group_transactions_by_priority"
        => /\ call.groups.high_priority = SelectSeq(call.transactions, IsHigh)
           /\ call.groups.medium_priority = SelectSeq(call.transactions, IsMedium)
           /\ call.groups.low_priority = SelectSeq(call.transactions, IsLow)
           /\ Len(call.groups.high_priority) + Len(call.groups.medium_priority)
                 + Len(call.groups.low_priority) = Len(call.transactions)

C14_Witness ==
    /\ call.op = "group_transactions_by_priority"
    /\ Len(call.groups.low_priority) = 2
    /\ type_code(call.groups.low_priority[1]) \notin TransactionType
    /\ type_code(call.groups.low_priority[2]) = "REL"
    /\ Len(call.groups.medium_priority) = 1
    /\ type_code(call.groups.medium_priority[1]) = "OPT"

\* ------------------------------------------------------ the preference filter
\* the descriptions of Descriptions that name a minor-league level, in any case
MinorLeagueTexts ==
    {<<"m", "i", "n", "o", "r", " ", "l", "e", "a", "g", "u", "e">>,
     <<"M", "i", "n", "o", "r", " ", "L", "e", "a", "g", "u", "e">>,
     <<"t", "o", " ", "T", "r", "i", "p", "l", "e", "-", "A">>,
     <<"D", "O", "U", "B", "L", "E", "-", "A">>,
     <<"S", "i", "n", "g", "l", "e", "-", "A">>,
     <<"r", "o", "o", "k", "i", "e">>,
     <<"R", "o", "o", "k", "i", "e", "s">>}

\* the preference the specification's table gives a type
PreferenceOfType(tt) ==
    CASE tt \in {"TR"} -> "trades"
      [] tt \in {"SFA", "PUR", "CLA"} -> "signings"
      [] tt \in {"REC", "SEL"} -> "recalls"
      [] tt \in {"OPT"} -> "options"
      [] tt \in {"IL"} -> "injuries"
      [] tt \in {"ACT", "REI"} -> "activations"
      [] tt \in {"REL"} -> "releases"
      [] tt \in {"SC", "DES", "SUS"} -> "status_changes"
      [] OTHER -> "other"

\* C15: with major_league_only set, a description that names a minor-league
\* level in any case is refused, whatever the type and the other settings.
C15_MinorLeagueRefused ==
    (/\ call.op = "should_notify_for_transaction"
     /\ call.prefs.major_league_only
     /\ call.text \in MinorLeagueTexts)
        => ~call.ok

C15_Witness ==
    /\ call.op = "should_notify_for_transaction"
    /\ call.prefs.major_league_only
    /\ call.text = <<"t", "o", " ", "T", "r", "i", "p", "l", "e", "-", "A">>
    /\ call.tt = "TR" /\ call.prefs.trades
    /\ ~call.ok

\* C16: when the major-league rule does not refuse, the answer is the value of
\* the one preference the table gives the type; the table covers every type;
\* changing that preference changes the answer and changing any other does not.
C16_OnePreferenceDecides ==
    (/\ call.op = "should_notify_for_transaction"
     /\ ~(call.prefs.major_league_only /\ call.text \in MinorLeagueTexts))
        => /\ TransactionType \subseteq DOMAIN type_preferences
           /\ call.ok = call.prefs[PreferenceOfType(call.tt)]
           /\ \A field \in PreferenceFields :
                 should_notify_for_transaction(
                     [call.prefs EXCEPT ![field] = ~@], call.tt, call.text)
                   = IF field = PreferenceOfType(call.tt) THEN ~call.ok ELSE call.ok

C16_Witness ==
    /\ call.op = "should_notify_for_transaction"
    /\ call.tt = "CLA"
    /\ call.prefs.major_league_only
    /\ call.text \notin MinorLeagueTexts
    /\ ~call.prefs.trades /\ call.prefs.signings
    /\ call.ok

\* ------------------------------------------------------------------ routing
\* the user is subscribed and the preferences the query would use want t
Eligible(c, t) ==
    /\ c \in subscribed
    /\ should_notify_for_transaction(
           IF c \in DOMAIN preferences THEN preferences[c] ELSE DefaultPreferences,
           transaction_type(t), description(t))

\* C17: the bot hands a transaction to the batcher for a user, sends it to him
\* or appends it to his buffer, only if he is subscribed and his preferences,
\* the defaults when he has stored none, want it.
C17_RoutedOnlyIfWanted ==
    [][/\ \A e \in Executors, c \in Chats, t \in Tx : Handles(e, c, t) => Eligible(c, t)
       /\ \A e \in Executors :
             (task'[e].pc = "send" /\ task[e].pc # "send")
                => Eligible(task'[e].chat, task'[e].msg[Len(task'[e].msg)])
       /\ \A c \in Chats :
             (direct' = direct /\ Len(BatchAfter(c)) > Len(BatchOf(c)))
                => Eligible(c, BatchAfter(c)[Len(BatchAfter(c))])]_vars

C17_Witness ==
    /\ task["initial"].pc = "send"
    /\ task["initial"].chat = 2
    /\ 2 \notin DOMAIN preferences
    /\ 1 \in subscribed
    /\ ~Eligible(1, task["initial"].msg[Len(task["initial"].msg)])
    /\ subscribed = Chats

\* ----------------------------------------------------------------- delivery
Delivery == call.op = "_send_message_with_retry"

Passes == 1..Len(call.responses)

Succeeded(k) == call.responses[k].kind = "ok"

\* C18: one delivery makes at most three attempts; a Telegram error on attempt
\* k < 3 is followed by a sleep of 2^(k-1) seconds and another attempt; a
\* successful attempt is the last one; the result is True exactly when some
\* attempt succeeded.
C18_ThreeAttemptsWithBackoff ==
    Delivery =>
        /\ Len(call.responses) <= 3
        /\ \A k \in Passes :
              (call.responses[k].kind = "TelegramError" /\ k < 3)
                 => /\ call.responses[k].slept
                    /\ call.responses[k].wait = 2 ^ (k - 1)
                    /\ ~call.done \/ k < Len(call.responses)
        /\ \A k \in Passes : Succeeded(k) => (k = Len(call.responses) /\ call.done)
        /\ call.done => (call.ok <=> \E k \in Passes : Succeeded(k))

C18_Witness ==
    /\ Delivery
    /\ call.done
    /\ call.ok
    /\ Len(call.responses) = 3
    /\ call.responses[1].kind = "TelegramError"
    /\ call.responses[2].kind = "TelegramError"
    /\ call.waits = <<1, 2>>

\* the passes that ended in a Telegram error other than a rate limit
GenericErrors == {k \in Passes : call.responses[k].kind = "TelegramError"}

\* C20: a rate-limited attempt that is not the last is followed by a sleep of
\* retry_after + 1 seconds, whatever the attempt number, and rate limits use
\* none of the budget of generic errors: the n-th generic error is followed by
\* the n-th backoff delay, and a delivery gives up only on an unexpected
\* exception or after three generic errors.
C20_RateLimitOutsideBudget ==
    Delivery =>
        /\ \A k \in Passes :
              (call.responses[k].kind = "RetryAfter" /\ k < Len(call.responses))
                 => /\ call.responses[k].slept
                    /\ call.responses[k].wait = call.responses[k].retry_after.seconds + 1
        /\ \A k \in GenericErrors :
              call.responses[k].slept
                 => call.responses[k].wait
                       = 2 ^ (Cardinality({j \in GenericErrors : j < k}))
        /\ (call.done /\ ~call.ok)
              => \/ call.responses[Len(call.responses)].kind = "Exception"
                 \/ Cardinality(GenericErrors) = max_retries

\* ------------------------------------------------------- failed deliveries
\* C19: no event of a delivery that failed is dropped: after the failed send of
\* a transaction message, in the handler or in the sweep, each of its events is
\* in the recipient's buffer again, where the sweep finds it, or is one that the
\* next sync classifies as new and routes again. (A transaction record has no
\* Failed status to carry.)
C19_FailedDeliveryNotDropped ==
    [][\A e \in Executors, c \in Chats, t \in Tx :
         (/\ c = task[e].chat
          /\ t \in Range(task[e].msg)
          /\ SendReturn(e, FALSE) \/ SweepSendReturn(e, FALSE))
            => \/ t \in Range(BatchAfter(c))
               \/ (t \notin get_new_transactions)']_vars

\* ------------------------------------------------------ notification jobs
\* C21: when send_notification returns, the job's attempts have grown by the
\* number of send attempts the delivery made; a delivery that is rate limited
\* on the first attempt and succeeds on the second leaves the job Sent.
C21_AttemptsCountSends ==
    [][(call.op = "_send_message_with_retry" /\ call'.op = "send_notification")
          => /\ job'.attempts = job.attempts + Len(call.responses)
             /\ (/\ Len(call.responses) = 2
                 /\ call.responses[1].kind = "RetryAfter"
                 /\ call.responses[2].kind = "ok") => job'.status = "sent"]_vars

\* the answers no retry can change
PermanentErrors == {"Forbidden", "BadRequest"}

\* C22: an attempt answered with a permanent error is the last attempt of its
\* delivery, and once send_notification has returned the job is Failed.
C22_PermanentErrorEndsDelivery ==
    \A k \in Passes :
        call.responses[k].error \in PermanentErrors
           => /\ k = Len(call.responses)
              /\ call.done
              /\ call.op = "send_notification" => job.status = "failed"

\* the moves of a status the specification allows: none out of Sent or
\* Cancelled, any out of Pending, and out of Failed the retry and what follows
Forward(before, after) ==
    \/ after = before
    \/ before = "pending"
    \/ before = "failed"

\* C23: the status of a job, in memory and in its stored row, only moves
\* forward; in particular a Sent job stays Sent.
C23_StatusOnlyForward ==
    [][/\ Forward(job.status, job'.status)
       /\ \A i \in DOMAIN job_records :
             Forward(job_records[i].status, job_records'[i].status)]_vars

\* ------------------------------------------------------ transaction table
\* C24: the table has one row per transaction id; after a save the row of the
\* id holds the description just saved; a save never turns notification_sent
\* back to False and no step removes a row, so a notified transaction stays
\* notified; get_new_transactions returns no notified transaction.
C24_UpsertKeepsNotified ==
    /\ [](call.op = "save_transaction"
            => /\ call.transactions[1] \in DOMAIN records
               /\ records[call.transactions[1]].description = call.text)
    /\ [](call.op = "get_new_transactions"
            => \A k \in 1..Len(call.transactions) :
                  ~records[call.transactions[k]].notification_sent)
    /\ [][\A t \in DOMAIN records :
            /\ t \in DOMAIN records'
            /\ records[t].notification_sent => records'[t].notification_sent
            /\ (call'.op = "save_transaction" /\ call'.transactions # <<t>>)
                 => records'[t] = records[t]]_vars

C24_Witness ==
    /\ call.op = "save_transaction"
    /\ call.transactions = <<1>>
    /\ call.text = Revised
    /\ records[1].notification_sent
    /\ records[1].description = Revised
    /\ 2 \in get_new_transactions

\* ------------------------------------------------------------- reminders
\* the firings of a step: the games whose wrapper it starts
Dispatched(g) == g \in inflight' /\ g \notin inflight

C26_OneReminderPerGame ==
    \A g \in Games : sent[g] <= 1

\* C27: cancel_notification_job on a registered reminder removes it and
\* returns True, and only a registered reminder is ever dispatched; on a
\* reminder that is dispatched or unknown it returns False and changes neither
\* the store, nor the running deliveries, nor any stored status.
C27_CancelNeverUnsends ==
    /\ [](call.op = "cancel_notification_job" => call.game \notin DOMAIN scheduled)
    /\ [][/\ \A g \in Games : Dispatched(g) => g \in DOMAIN scheduled
          /\ call'.op = "cancel_notification_job"
                => /\ call'.ok <=> call'.game \in DOMAIN scheduled
                   /\ ~call'.ok => scheduled' = scheduled
                   /\ inflight' = inflight
                   /\ job_records' = job_records
                   /\ sent' = sent]_vars

C27_Witness ==
    /\ call.op = "cancel_notification_job"
    /\ ~call.ok
    /\ call.game \in inflight
    /\ call.game \in DOMAIN job_records
    /\ job_records[call.game].status = "sent"

\* -------------------------------------------------- the message renderer
\* a message is the sequence of its lines, a line the sequence of its
\* characters; a piece of markup or an emoji counts as one character

\* str.upper, character by character
upper(text) ==
    [i \in 1..Len(text) |->
        IF \E k \in 1..Len(LowerCase) : LowerCase[k] = text[i]
        THEN UpperCase[CHOOSE k \in 1..Len(LowerCase) : LowerCase[k] = text[i]]
        ELSE text[i]]

\* str(i) of a list position
Numeral(i) ==
    IF i < 10 THEN <<<<"0", "1", "2", "3", "4", "5", "6", "7", "8", "9">>[i + 1]>>
    ELSE <<"1", <<"0", "1", "2", "3", "4", "5", "6", "7", "8", "9">>[(i % 10) + 1]>>

\* typeDesc of the transactions of the universe; upstream may name a type as
\* it likes, also with the words of the aggregate header
type_description(t) ==
    CASE type_code(t) = "TR" -> <<"T", "r", "a", "d", "e">>
      [] type_code(t) = "IL" -> <<"I", "n", "j", "u", "r", "e", "d", " ", "L", "i", "s", "t">>
      [] type_code(t) \in {"OTH", "XX"} -> <<"M", "a", "r", "i", "n", "e", "r", "s", " ", "T", "r", "a", "n", "s", "a", "c", "t", "i", "o", "n", " ", "U", "p", "d", "a", "t", "e">>
      [] OTHER -> <<"S", "t", "a", "t", "u", "s", " ", "C", "h", "a", "n", "g", "e">>

\* fullName of the player: the header's words for one of them
person_name(t) ==
    IF t % 5 = 0 THEN <<"M", "A", "R", "I", "N", "E", "R", "S", " ", "T", "R", "A", "N", "S", "A", "C", "T", "I", "O", "N", " ", "U", "P", "D", "A", "T", "E">>
    ELSE <<"P", "l", "a", "y", "e", "r", " ">> \o Numeral(t)

\* to_team_id and from_team_id: the Mariners acquire, lose, or neither
is_mariners_acquisition(t) == t % 3 = 0
is_mariners_departure(t) == t % 3 = 1

\* Transaction.emoji
emoji(t) ==
    CASE transaction_type(t) \in {"TR", "REI"} -> "(arrows)"
      [] transaction_type(t) = "SFA" -> "(writing)"
      [] transaction_type(t) = "SC" -> "(clipboard)"
      [] transaction_type(t) = "SEL" -> "(up)"
      [] transaction_type(t) = "REC" -> "(phone)"
      [] transaction_type(t) = "OPT" -> "(down)"
      [] transaction_type(t) = "DES" -> "(label)"
      [] transaction_type(t) = "REL" -> "(door)"
      [] transaction_type(t) = "SUS" -> "(pause)"
      [] transaction_type(t) = "PUR" -> "(money)"
      [] transaction_type(t) = "CLA" -> "(target)"
      [] transaction_type(t) = "IL" -> "(hospital)"
      [] transaction_type(t) = "ACT" -> "(check)"
      [] OTHER -> "(memo)"

direction_emoji(t) ==
    IF is_mariners_acquisition(t) THEN <<"(right)">>
    ELSE IF is_mariners_departure(t) THEN <<"(left)">>
    ELSE <<>>

\* transaction_date.strftime('%B %d, %Y')
strftime(day) == <<"J", "a", "n", "u", "a", "r", "y", " ">> \o Numeral(15 + day) \o <<",", " ", "2", "0", "2", "5">>

Bold(text) == <<"<b>">> \o text \o <<"</b>">>

Footer == <<"(wave)", " ">> \o <<"G", "o", " ", "M", "a", "r", "i", "n", "e", "r", "s", "!">>

\* the first line of the aggregate message
AggregateHeader == <<"(fire)", " ">> \o Bold(<<"M", "A", "R", "I", "N", "E", "R", "S", " ", "T", "R", "A", "N", "S", "A", "C", "T", "I", "O", "N", " ", "U", "P", "D", "A", "T", "E">>)

\* the title of format_notification_message
Title(t) ==
    CASE transaction_type(t) = "TR" ->
            <<emoji(t), " ">> \o Bold(<<"T", "R", "A", "D", "E", " ", "A", "L", "E", "R", "T">>) \o <<" ">> \o direction_emoji(t)
      [] transaction_type(t) = "SFA" ->
            <<emoji(t), " ">> \o Bold(<<"F", "R", "E", "E", " ", "A", "G", "E", "N", "T", " ", "S", "I", "G", "N", "I", "N", "G">>) \o <<" ">> \o direction_emoji(t)
      [] transaction_type(t) = "IL" -> <<emoji(t), " ">> \o Bold(<<"I", "N", "J", "U", "R", "Y", " ", "U", "P", "D", "A", "T", "E">>)
      [] transaction_type(t) = "ACT" -> <<emoji(t), " ">> \o Bold(<<"A", "C", "T", "I", "V", "A", "T", "I", "O", "N">>)
      [] transaction_type(t) = "REC" ->
            <<emoji(t), " ">> \o Bold(<<"P", "L", "A", "Y", "E", "R", " ", "R", "E", "C", "A", "L", "L", "E", "D">>) \o <<" ">> \o direction_emoji(t)
      [] transaction_type(t) = "OPT" ->
            <<emoji(t), " ">> \o Bold(<<"P", "L", "A", "Y", "E", "R", " ", "O", "P", "T", "I", "O", "N", "E", "D">>) \o <<" ">> \o direction_emoji(t)
      [] OTHER ->
            <<emoji(t), " ">> \o Bold(upper(type_description(t))) \o <<" ">>
                \o direction_emoji(t)

\* Transaction.format_notification_message; no transaction of the universe has
\* an effective date of its own
format_notification_message(t) ==
    << Title(t),
       <<>>,
       <<"(person)", " ", "<b>Player:</b>", " ">> \o person_name(t),
       <<"(clipboard)", " ", "<b>Transaction:</b>", " ">> \o description(t),
       <<"(calendar)", " ", "<b>Date:</b>", " ">> \o strftime(transaction_date(t)),
       <<>>,
       Footer >>

\* the order of the characters of a type description: space, capitals, small
CodePoint(c) ==
    LET order == <<" ">> \o UpperCase \o LowerCase
    IN CHOOSE k \in 1..Len(order) : order[k] = c

\* x < y for two strings
TextLess(x, y) ==
    \E k \in 1..(Len(x) + 1) :
        /\ k <= Len(y)
        /\ SubSeq(x, 1, k - 1) = SubSeq(y, 1, k - 1)
        /\ k <= Len(x) => CodePoint(x[k]) < CodePoint(y[k])

\* the type descriptions of a list, sorted, each with its count
RECURSIVE SummaryParts(_, _)
SummaryParts(types, transactions) ==
    IF types = {} THEN <<>>
    ELSE LET first == CHOOSE x \in types : \A y \in types : x = y \/ TextLess(x, y)
             count == Cardinality({i \in 1..Len(transactions) :
                                      type_description(transactions[i]) = first})
             part == IF count = 1 THEN first
                     ELSE Numeral(count) \o <<" ">> \o first \o <<"s">>
             rest == SummaryParts(types \ {first}, transactions)
         IN IF rest = <<>> THEN part ELSE part \o <<" ", "(bullet)", " ">> \o rest

\* the numbered entry of one transaction
Entry(i, t) ==
    << <<>>,
       Numeral(i) \o <<".", " ", emoji(t), " ">> \o Bold(person_name(t)) \o <<" ">>
           \o direction_emoji(t),
       <<" ", " ", " ">> \o description(t) >>

RECURSIVE Entries(_, _)
Entries(i, transactions) ==
    IF i > Len(transactions) THEN <<>>
    ELSE Entry(i, transactions[i]) \o Entries(i + 1, transactions)

batch_notification_message_aggregate(transactions) ==
    IF transactions = <<>> THEN <<>>
    ELSE LET dates == {transaction_date(transactions[i]) : i \in 1..Len(transactions)}
             min_date == CHOOSE d \in dates : \A o \in dates : d <= o
             max_date == CHOOSE d \in dates : \A o \in dates : d >= o
             date_range == IF min_date = max_date THEN strftime(min_date)
                           ELSE <<"J", "a", "n", "u", "a", "r", "y", " ">> \o Numeral(15 + min_date) \o <<" ", "-", " ">>
                                   \o strftime(max_date)
             types == {type_description(transactions[i]) : i \in 1..Len(transactions)}
         IN << AggregateHeader,
               <<>>,
               <<"(clipboard)", " ", "<b>Summary:</b>", " ">> \o SummaryParts(types, transactions),
               <<"(calendar)", " ", "<b>Date:</b>", " ">> \o date_range,
               <<>>,
               <<"<b>Details:</b>">> >>
            \o Entries(1, transactions)
            \o << <<>>, Footer >>

\* Transaction.format_batch_notification_message as the text it returns
batch_notification_message(transactions) ==
    IF transactions = <<>> THEN <<>>
    ELSE IF Len(transactions) = 1 THEN format_notification_message(transactions[1])
    ELSE batch_notification_message_aggregate(transactions)

RenderFrame ==
    UNCHANGED <<reminder, pending_transactions, last_notification_time, records, config,
                task, due, added, direct, ev>>

\* one more transaction in the list to render
RenderArrive(t) ==
    /\ call.op \in {"none", "format_batch_notification_message"}
    /\ Len(call.transactions) < MaxRendered
    /\ call' = [NoCall EXCEPT !.transactions = Append(call.transactions, t)]
    /\ RenderFrame

\* message = format_batch_notification_message(list); if message: send
CallFormat ==
    /\ call.op = "none"
    /\ call' = [call EXCEPT !.op = "format_batch_notification_message",
                            !.message = batch_notification_message(call.transactions),
                            !.ok = batch_notification_message(call.transactions) # <<>>]
    /\ RenderFrame

RenderNext ==
    \/ \E t \in Events : RenderArrive(t)
    \/ CallFormat

RenderSpec == CallInit /\ [][RenderNext]_vars

\* ------------------------------------------ the transactions response parsed
\* the keys _parse_transaction_data reads without asking whether they are there
RequiredKeys == {"id", "person", "date", "typeCode", "typeDesc", "description"}

\* the records upstream sends: all the required keys, or no person, or only id
\* and date; a person that is an object or null; a date with a time, a date
\* alone, or a text that is no ISO date
RawKeys == {RequiredKeys, RequiredKeys \ {"person"}, {"id", "date"}}

RawDates == {<<2025, 1, 15, 13>>, <<2025, 1, 15>>, <<0>>}

RawRecords ==
    [keys : RawKeys, id : Tx, person : {"object", "null"}, date : RawDates]

\* datetime.fromisoformat accepts a date with or without a time
IsIsoFormat(text) == Len(text) \in {3, 4}

\* datetime.fromisoformat(text).date()
DateOf(text) == SubSeq(text, 1, 3)

\* the Transaction of a record, or nothing when a key is missing (KeyError),
\* the person is null (TypeError) or the date is no ISO date (ValueError)
_parse_transaction_data(transaction_data) ==
    IF /\ RequiredKeys \subseteq transaction_data.keys
       /\ transaction_data.person = "object"
       /\ IsIsoFormat(transaction_data.date)
    THEN <<[transaction_id |-> transaction_data.id,
            transaction_date |-> DateOf(transaction_data.date)]>>
    ELSE <<>>

RECURSIVE _parse_transactions_response(_)
_parse_transactions_response(list) ==
    IF list = <<>> THEN <<>>
    ELSE _parse_transaction_data(Head(list))
            \o _parse_transactions_response(Tail(list))

\* the records _parse_transaction_data logs as failed, in order
RECURSIVE FailedToParse(_)
FailedToParse(list) ==
    IF list = <<>> THEN <<>>
    ELSE (IF _parse_transaction_data(Head(list)) = <<>>
          THEN <<Head(list)>> ELSE <<>>) \o FailedToParse(Tail(list))

RECURSIVE RawSeqs(_)
RawSeqs(n) ==
    IF n = 0 THEN {<<>>}
    ELSE RawSeqs(n - 1)
           \cup {Append(s, r) : s \in {q \in RawSeqs(n - 1) : Len(q) = n - 1},
                                r \in RawRecords}

\* data.get("transactions", []): a response without the key has no records
UpstreamData == RawSeqs(MaxRecords)

\* _parse_transactions_response(data), with what it logs
CallParseResponse(data) ==
    /\ call' = [NoCall EXCEPT
                   !.op = "_parse_transactions_response",
                   !.data = data,
                   !.transactions = _parse_transactions_response(data),
                   !.errors = FailedToParse(data),
                   !.report = [event |-> "Parsed transactions",
                               total_transactions |->
                                   Len(_parse_transactions_response(data))]]
    /\ UNCHANGED <<reminder, pending_transactions, last_notification_time,
                   records, config, task, due, added, direct, ev>>

ParserNext == \E data \in UpstreamData : CallParseResponse(data)

ParserSpec == CallInit /\ [][ParserNext]_vars

\* ------------------------------------------------------------ failed runs
\* C28: a scheduled run whose callback raises ends in its wrapper and the
\* process lives on: the transaction sync is idle again, the daily schedule
\* sync and the reminder are over, nothing else is touched; and the next
\* interval and the next day start the recurring runs again.
C28_NoFailureEscapesATick ==
    [][/\ SyncFetchRaise("job") => (task'["job"].pc = "idle" /\ Alive')
       /\ (sync_due = "daily" /\ call'.op = "_sync_schedule")
             => (running' /\ sync_due' = "none" /\ inflight' = inflight
                 /\ scheduled' = scheduled)
       /\ (call'.op = "_notification_wrapper" /\ ~call'.done)
             => (running' = running /\ call'.game \notin inflight'
                 /\ job_records' = job_records /\ scheduled' = scheduled)
       /\ (Tick /\ task["job"].pc = "idle") => due'
       /\ (DayPasses /\ running) => sync_due' = "daily"]_vars

C28_Witness ==
    /\ ev.op = "sync_failed"
    /\ task["job"].pc = "idle"
    /\ Alive
    /\ call.op = "_notification_wrapper"
    /\ ~call.done
    /\ running
    /\ sync_due = "daily"

\* C29: a scheduled transaction sync whose fetch fails changes no buffer, no
\* last notification time and no record, starts no send, and leaves the
\* executor idle, so that the next interval starts the fetch again.
C29_FailedFetchChangesNothing ==
    [][/\ SyncFetchRaise("job")
             => /\ pending_transactions' = pending_transactions
                /\ last_notification_time' = last_notification_time
                /\ records' = records
                /\ task'["job"] = Rest("idle")
                /\ task'["initial"] = task["initial"]
                /\ Alive'
       /\ (Tick /\ task["job"].pc = "idle") => (due' /\ Startable("job")')]_vars

C29_Witness ==
    /\ ev.op = "sync_failed"
    /\ Alive
    /\ task["job"].pc = "idle"
    /\ \E c \in Chats : BatchOf(c) # <<>> /\ c \in DOMAIN last_notification_time
    /\ get_new_transactions # {}

\* what _parse_transactions_response returns is the well-formed records of
\* the response, each as its Transaction, in the order of the response, and
\* every other record is logged as failed
ParsedAreTheWellFormed ==
    call.op = "_parse_transactions_response"
        => /\ \E pick \in SUBSET (1..Len(call.data)) :
                 LET kept == SetToSeq(pick)
                 IN /\ pick = {i \in 1..Len(call.data) :
                                  /\ RequiredKeys \subseteq call.data[i].keys
                                  /\ call.data[i].person = "object"
                                  /\ Len(call.data[i].date) >= 3}
                    /\ Len(call.transactions) = Len(kept)
                    /\ \A k \in 1..Len(kept) :
                          /\ call.transactions[k].transaction_id = call.data[kept[k]].id
                          /\ call.transactions[k].transaction_date
                                = <<call.data[kept[k]].date[1], call.data[kept[k]].date[2],
                                    call.data[kept[k]].date[3]>>
           /\ Len(call.errors) = Len(call.data) - Len(call.transactions)

\* the number of records skipped is one of the numbers of the closing report
SkippedAreCounted ==
    call.op = "_parse_transactions_response"
        => \E field \in DOMAIN call.report \ {"event"} :
              call.report[field] = Len(call.data) - Len(call.transactions)

\* C30: the parse of a response returns exactly its well-formed records in
\* their order, and reports how many records it skipped.
C30_MalformedSkippedAndCounted ==
    ParsedAreTheWellFormed /\ SkippedAreCounted

\* ------------------------------------------------------------ the renderer
\* the lines of a message that open with a position and a full stop
Numbered(message) ==
    SelectSeq(message, LAMBDA line :
        \E k \in 1..(Len(line) - 1) :
            /\ line[k + 1] = "."
            /\ \A j \in 1..k : line[j] \in {"0", "1", "2", "3", "4", "5", "6", "7", "8", "9"})

\* C31: the message of no event is the empty string, which is not sent; the
\* message of one event is that event's own message and has no aggregate
\* header line; the message of two or more events opens with the aggregate
\* header and has one numbered entry per event, numbered from 1 in the order
\* of the list.
C31_FormatBimodalOnCount ==
    call.op = "format_batch_notification_message"
        => LET list == call.transactions
               message == call.message
           IN /\ list = <<>> => (message = <<>> /\ ~call.ok)
              /\ Len(list) = 1
                    => /\ message = format_notification_message(list[1])
                       /\ \A i \in 1..Len(message) : message[i] # AggregateHeader
                       /\ Numbered(message) = <<>>
                       /\ call.ok
              /\ Len(list) >= 2
                    => /\ message[1] = AggregateHeader
                       /\ \A i \in 2..Len(message) : message[i] # AggregateHeader
                       /\ Len(Numbered(message)) = Len(list)
                       /\ \A i \in 1..Len(list) :
                             Numbered(message)[i] = Entry(i, list[i])[2]
                       /\ call.ok

C31_Witness ==
    /\ call.op = "format_batch_notification_message"
    /\ Len(call.transactions) = 1
    /\ type_code(call.transactions[1]) = "XX"
    /\ call.message[1] # AggregateHeader
    /\ Contains(call.message[1], SubSeq(AggregateHeader, 4, Len(AggregateHeader) - 1))

\* ---------------------------------------------------------- the poll cycle
\* C32: no run of _sync_transactions whose fetch succeeded is over right after
\* the fetch: a run ends only from _process_pending_transaction_batches.
C32_EveryPollSweeps ==
    [][\A e \in Executors :
          /\ \A transactions \in Responses :
                SyncFetch(e, transactions) => task'[e].pc # Returned(e)
          /\ (task[e].pc \notin {"start", "idle", "done"} /\ task'[e].pc = Returned(e))
                => task[e].pc \in {"sweep", "sweep_loop", "sweep_send"}]_vars

\* an executor is inside _sync_transactions
InSync(e) == task[e].pc \notin {"start", "idle", "done", "crashed"}

\* C33: at most one run of the transaction sync is in progress: the run the
\* scheduler starts and the run MarinersBot.start awaits are never both
\* inside _sync_transactions.
C33_OneSyncAtATime ==
    ~(InSync("initial") /\ InSync("job"))

\* ------------------------------------------------------------ recipients
\* C34: whatever happens with the recipient an executor is handling, the
\* executor goes on to the remaining recipients of its list, in the routing
\* of a transaction and in the sweep; and its step leaves the buffer and the
\* last notification time of every other recipient as they were.
C34_RecipientsIndependent ==
    [][\A e \in Executors :
          (task'[e] # task[e] /\ task[e].pc \in {"handle", "send", "sweep_loop", "sweep_send"})
             => /\ (task[e].pc \in {"sweep_loop", "sweep_send"} /\ Tail(task[e].users) # <<>>)
                      => \/ task'[e].pc = "sweep_send" /\ task'[e].users = task[e].users
                         \/ task'[e].pc = "sweep_loop" /\ task'[e].users = Tail(task[e].users)
                /\ (task[e].pc \in {"handle", "send"} /\ Tail(task[e].users) # <<>>)
                      => \/ task'[e].pc = "send" /\ task'[e].users = task[e].users
                         \/ task'[e].pc = "handle" /\ task'[e].users = Tail(task[e].users)
                /\ \A c \in Chats \ {Head(task[e].users)} :
                      /\ BatchOf(c)' = BatchOf(c)
                      /\ (c \in DOMAIN last_notification_time)'
                            = (c \in DOMAIN last_notification_time)
                      /\ c \in DOMAIN last_notification_time
                            => last_notification_time'[c] = last_notification_time[c]]_vars

\* C35: a last notification time is created or renewed for a recipient only
\* in the step in which a send to that recipient returns success, and a send
\* that returns failure leaves every last notification time as it was.
C35_MarkedOnlyAfterSuccess ==
    [][/\ \A c \in Chats :
             (/\ c \in DOMAIN last_notification_time'
              /\ \/ c \notin DOMAIN last_notification_time
                 \/ last_notification_time'[c] < last_notification_time[c])
                => \E e \in Executors :
                      /\ task[e].chat = c
                      /\ SendReturn(e, TRUE) \/ SweepSendReturn(e, TRUE)
       /\ \A e \in Executors :
             (SendReturn(e, FALSE) \/ SweepSendReturn(e, FALSE))
                => last_notification_time' = last_notification_time]_vars

C35_Witness ==
    \E c \in Chats, d \in Chats :
        /\ c \in DOMAIN last_notification_time
        /\ last_notification_time[c] = 0
        /\ d \notin DOMAIN last_notification_time
        /\ \E t \in DOMAIN records : records[t].notification_sent
        /\ \A e \in Executors : task[e].pc \in {"idle", "done"}

C37_CancelledGameNotReminded ==
    [][\A g \in Games :
          /\ (games' # games /\ g \in DOMAIN games' /\ games'[g].status # "scheduled")
                => g \notin DOMAIN scheduled'
          /\ (Dispatched(g) /\ g \in DOMAIN games)
                => games[g].status = "scheduled"]_vars

\* ------------------------------------------------------ the bot on its own
\* C38: as long as nothing but the bot has put a transaction into the
\* batcher, every buffer is empty, the sweep finds no recipient, and every
\* message the bot sends to a user carries exactly one transaction.
C38_BotNeverBatches ==
    ~direct
        => /\ \A c \in Chats : BatchOf(c) = <<>>
           /\ \A e \in Executors :
                 /\ task[e].pc \notin {"sweep_loop", "sweep_send"}
                 /\ task[e].pc = "send" => Len(task[e].msg) = 1

\* a second transaction for a recipient inside the window is on its way alone
C38_Witness ==
    /\ ~direct
    /\ \E e \in Executors :
          /\ task[e].pc = "send"
          /\ task[e].chat \in DOMAIN last_notification_time
          /\ Elapsed(task[e].chat) <= batch_window_minutes
          /\ Len(task[e].msg) = 1

\* ------------------------------------------------------------- the users
\* C39: a user who is not subscribed becomes subscribed only by his own
\* /subscribe or /start, and the users a transaction is routed to are
\* subscribed.
C39_UnsubscribedUntilSubscribe ==
    /\ [](call.op = "get_users_for_transaction_notification"
             => Range(call.data) \subseteq subscribed)
    /\ [][\A c \in Chats :
             (c \notin subscribed /\ c \in subscribed')
                => /\ call'.op \in {"_handle_subscribe", "_handle_start"}
                   /\ call'.chat = c]_vars

\* send_notification has returned: with no chat it never reached the delivery,
\* otherwise the delivery's answer has been recorded on the job
SendNotificationReturns ==
    \/ SendNotificationNoChat
    \/ \E saved \in BOOLEAN : SendNotificationReturn(saved)

\* C40: whenever send_notification returns, its result is true exactly when the
\* job ends Sent, and a false result leaves the job Failed, with an error
\* message, one more attempt than before and the job saved to the store, also
\* when there was no chat to send to.
C40_ResultAgreesWithJob ==
    [][SendNotificationReturns
          => /\ call'.ok <=> job'.status = "sent"
             /\ ~call'.ok
                  => /\ job'.status = "failed"
                     /\ job'.error_message
                     /\ job'.attempts = job.attempts + 1
                     /\ JobId \in DOMAIN job_records'
                     /\ job_records'[JobId] = job']_vars

====
